---------------------------- MODULE Spec2Model ----------------------------
(***************************************************************************)
(* A model of the geometry, vector and UV utility layer of threets:        *)
(* UvUtils (src/unnamed/part_004), VectorUtils and ShapeUtils              *)
(* (src/src/utils/ShapeUtils.ts) and ShapeFactory (src/src/utils/Colors.ts)*)
(*                                                                         *)
(* Numbers.  A JavaScript number is modelled as a reduced fraction         *)
(* [n, d] with d > 0, or as one of the three IEEE specials with d = 0:     *)
(* NaN, +Infinity and -Infinity.  Arithmetic is exact (no rounding, no     *)
(* signed zero), so cos and sin are exact at the multiples of 90 degrees   *)
(* the model uses.  null/undefined is the record Null.                     *)
(***************************************************************************)
EXTENDS Integers, Sequences, FiniteSets, TLC

VARIABLES
    geo,     \* the THREE.Geometry the UV operations work on (or Null)
    geo0,    \* that geometry as it was constructed
    last,    \* the last UvUtils/ShapeUtils call: op, argument, threw, geometry before
    steps,   \* number of calls made on geo
    call,    \* a pending call of a pure function: its name and arguments
    ret,     \* the outcome of that call
    pc       \* "ready" before the pure call ran, "done" after, "uv" in the UV machine

vars == <<geo, geo0, last, steps, call, ret, pc>>

-----------------------------------------------------------------------------
(* Bounds of the model *)

MaxSteps == 2      \* UV operations applied in a row
MaxExtent == 2     \* largest width/height of a mesh's rectangle
MaxOrigin == 1     \* largest x/y of the rectangle's lower-left corner
MaxCoord == 2      \* largest x/y of a polygon corner, in steps of .002
MaxSide == 10      \* longest side of an offset square
MaxPadding == 2    \* largest padding / offset of a contour

-----------------------------------------------------------------------------
(* null / undefined *)

Null == [null |-> TRUE]
IsNull(v) == "null" \in DOMAIN v

-----------------------------------------------------------------------------
(* Numbers *)

Abs(i) == IF i < 0 THEN -i ELSE i
SignOf(i) == IF i < 0 THEN -1 ELSE IF i > 0 THEN 1 ELSE 0
Min(a, b) == IF a < b THEN a ELSE b

RECURSIVE GCD(_, _)
GCD(a, b) == IF b = 0 THEN a ELSE GCD(b, a % b)

NaN == [n |-> 0, d |-> 0]
Inf(sign) == [n |-> sign, d |-> 0]

\* the reduced fraction n/d, d # 0
Rat(n, d) ==
    IF d = 1 THEN [n |-> n, d |-> 1]
    ELSE LET g == GCD(Abs(n), Abs(d))
             s == IF d < 0 THEN -1 ELSE 1
         IN  [n |-> s * (n \div g), d |-> s * (d \div g)]

Num(i) == [n |-> i, d |-> 1]
Zero == Num(0)
IsNaN(a) == a.d = 0 /\ a.n = 0
IsFinite(a) == a.d # 0

Neg(a) == [n |-> -a.n, d |-> a.d]

Add(a, b) ==
    IF a.d # 0 /\ b.d # 0 THEN Rat(a.n * b.d + b.n * a.d, a.d * b.d)
    ELSE IF IsNaN(a) \/ IsNaN(b) THEN NaN
    ELSE IF a.d = 0 /\ b.d = 0 THEN (IF a.n = b.n THEN a ELSE NaN)
    ELSE IF a.d = 0 THEN a ELSE b

Sub(a, b) == Add(a, Neg(b))

Mul(a, b) ==
    IF a.d # 0 /\ b.d # 0 THEN Rat(a.n * b.n, a.d * b.d)
    ELSE IF a.n = 0 \/ b.n = 0 THEN NaN      \* NaN operand, or 0 * Infinity
    ELSE Inf(SignOf(a.n) * SignOf(b.n))

Div(a, b) ==
    IF IsNaN(a) \/ IsNaN(b) THEN NaN
    ELSE IF b.d = 0 THEN (IF a.d = 0 THEN NaN ELSE Zero)
    ELSE IF b.n = 0 THEN (IF a.n = 0 THEN NaN ELSE Inf(SignOf(a.n)))
    ELSE IF a.d = 0 THEN Inf(a.n * SignOf(b.n))
    ELSE Rat(a.n * b.d, a.d * b.n)

\* a < b; every comparison with NaN is false
Lt(a, b) ==
    IF IsNaN(a) \/ IsNaN(b) THEN FALSE
    ELSE IF a.d # 0 /\ b.d # 0 THEN a.n * b.d < b.n * a.d
    ELSE IF a.d = 0 /\ b.d = 0 THEN a.n < b.n
    ELSE IF a.d = 0 THEN a.n < 0
    ELSE b.n > 0

NumEq(a, b) == ~IsNaN(a) /\ ~IsNaN(b) /\ a = b
Le(a, b) == Lt(a, b) \/ NumEq(a, b)
Gt(a, b) == Lt(b, a)
Ge(a, b) == Le(b, a)


-----------------------------------------------------------------------------
(* THREE.Vector2 / THREE.Vector3 and the rotation about Z *)

Vector2(x, y) == [x |-> x, y |-> y]
Vector3(x, y, z) == [x |-> x, y |-> y, z |-> z]
V2(i, j) == Vector2(Num(i), Num(j))
V3(i, j, k) == Vector3(Num(i), Num(j), Num(k))

\* Math.cos / Math.sin of THREE.Math.degToRad(deg), deg a multiple of 90
CosDeg(deg) == CASE deg % 360 = 0 -> 1  [] deg % 360 = 90 -> 0
                 [] deg % 360 = 180 -> -1 [] deg % 360 = 270 -> 0
SinDeg(deg) == CASE deg % 360 = 0 -> 0  [] deg % 360 = 90 -> 1
                 [] deg % 360 = 180 -> 0 [] deg % 360 = 270 -> -1

\* the rotation by deg the other way round
RotateZClockwise(v, deg) ==
    LET c == Num(CosDeg(deg))
        s == Num(SinDeg(deg))
    IN  Vector2(Add(Mul(c, v.x), Mul(s, v.y)), Sub(Mul(c, v.y), Mul(s, v.x)))

\* (x, y) of v after Matrix4.makeRotationZ(degToRad(deg)) was applied to it
RotateZ(v, deg) ==
    LET c == Num(CosDeg(deg))
        s == Num(SinDeg(deg))
    IN  Vector2(Sub(Mul(c, v.x), Mul(s, v.y)), Add(Mul(s, v.x), Mul(c, v.y)))

-----------------------------------------------------------------------------
(* THREE.Geometry: vertices, faces (index triples a, b, c, 0-based as in   *)
(* the source) and faceVertexUvs, the list of UV sets; faceVertexUvs[0],   *)
(* the first set, holds one entry of three Vector2 per face.  A geometry   *)
(* without a first UV set has faceVertexUvs = << >>.                       *)

Face3(a, b, c) == [a |-> a, b |-> b, c |-> c]
Geometry(vertices, faces, faceVertexUvs) ==
    [vertices |-> vertices, faces |-> faces, faceVertexUvs |-> faceVertexUvs]

Vertex(g, i) == g.vertices[i + 1]
HasUvSet(g) == Len(g.faceVertexUvs) > 0
UvSet(g) == g.faceVertexUvs[1]
NumUvEntries(g) == IF HasUvSet(g) THEN Len(UvSet(g)) ELSE 0
WithUvSet(g, set) == [g EXCEPT !.faceVertexUvs = <<set>> \o Tail(g.faceVertexUvs)]
XY(v) == Vector2(v.x, v.y)

\* the outcome of a call: what it returned, or that it threw; for a call that
\* works on an object in place, the value is the object as the call left it
Threw(v) == [threw |-> TRUE, value |-> v]
Returned(v) == [threw |-> FALSE, value |-> v]

\* Geometry.computeBoundingBox: boundingBox.min / boundingBox.max in x and y
BoxMin(g) ==
    LET xs == {g.vertices[i].x : i \in DOMAIN g.vertices}
        ys == {g.vertices[i].y : i \in DOMAIN g.vertices}
    IN  Vector2(CHOOSE m \in xs : \A o \in xs : Le(m, o),
                CHOOSE m \in ys : \A o \in ys : Le(m, o))
BoxMax(g) ==
    LET xs == {g.vertices[i].x : i \in DOMAIN g.vertices}
        ys == {g.vertices[i].y : i \in DOMAIN g.vertices}
    IN  Vector2(CHOOSE m \in xs : \A o \in xs : Le(o, m),
                CHOOSE m \in ys : \A o \in ys : Le(o, m))

-----------------------------------------------------------------------------
(* UvUtils *)

\* a loop over the faces that writes faceVertexUvs[0][faceIndex][0..2] stops with a
\* TypeError at the first face that has no UV entry; the entries written before
\* it stay written
FacesWritten(g) == Min(Len(g.faces), NumUvEntries(g))
WriteUvs(g, entry) ==
    IF HasUvSet(g)
    THEN WithUvSet(g, [i \in 1..NumUvEntries(g) |->
                          IF i <= FacesWritten(g) THEN entry[i] ELSE UvSet(g)[i]])
    ELSE g
WriteOutcome(g, entry) ==
    IF Len(g.faces) > NumUvEntries(g) THEN Threw(WriteUvs(g, entry))
    ELSE Returned(WriteUvs(g, entry))

\* UvUtils.setUvRotationOnGeometry(degree, geo); an invalid degree is NaN
setUvRotationOnGeometry(degree, g) ==
    IF IsNaN(degree) THEN Threw(g)
    ELSE IF IsNull(g) THEN Threw(g)
    ELSE LET rot(i) == RotateZ(Vertex(g, i), -degree.n)   \* the clone's vertex
             entry == [f \in 1..Len(g.faces) |->
                          <<rot(g.faces[f].a), rot(g.faces[f].b), rot(g.faces[f].c)>>]
         IN  WriteOutcome(g, entry)

\* a swap that moves the three indices round and keeps the winding
FlipFaceRotated(face) == Face3(face.b, face.c, face.a)
\* the face loop of flipFaceNormalOnGeo
FlipFace(face) == Face3(face.c, face.b, face.a)
\* a flip that swaps the wrong pair of corners
FlipUvEntryWrongPair(uv) == <<uv[2], uv[1], uv[3]>>
\* the UV loop of flipFaceNormalOnGeo
FlipUvEntry(uv) == <<uv[3], uv[2], uv[1]>>

\* UvUtils.flipFaceNormalOnGeo(geometry)
flipFaceNormalOnGeo(g) ==
    IF IsNull(g) THEN Threw(g)                      \* TypeError: geometry.faces
    ELSE LET flipped == [g EXCEPT !.faces = [f \in 1..Len(g.faces) |-> FlipFace(g.faces[f])]]
         IN  IF ~HasUvSet(g) THEN Threw(flipped)    \* TypeError: faceVertexUvs.length
             ELSE Returned(WithUvSet(flipped,
                      [i \in 1..NumUvEntries(g) |-> FlipUvEntry(UvSet(g)[i])]))

\* UvUtils.planeProjectionOnGeometry(geo, origin); origin is optional (Null)
planeProjectionOnGeometry(g, origin) ==
    IF IsNull(g) THEN Threw(g)
    ELSE LET uMax == Sub(BoxMax(g).x, BoxMin(g).x)
             vMax == Sub(BoxMax(g).y, BoxMin(g).y)
             moved(uv) == IF IsNull(origin) THEN uv
                          ELSE Vector2(Sub(uv.x, origin.x), Sub(uv.y, origin.y))
             proj(uv) == Vector2(Div(moved(uv).x, uMax), Div(moved(uv).y, vMax))
             entry == [f \in 1..FacesWritten(g) |->
                          <<proj(UvSet(g)[f][1]), proj(UvSet(g)[f][2]), proj(UvSet(g)[f][3])>>]
         IN  WriteOutcome(g, entry)

\* UvUtils.rotateUVs(geometry)
rotateUVs(g) ==
    IF IsNull(g) THEN Threw(g)                      \* TypeError: geometry.faceVertexUvs
    ELSE IF ~HasUvSet(g) THEN Threw(g)              \* TypeError: uvs[0].forEach
    ELSE Returned(WithUvSet(g,
             [i \in 1..NumUvEntries(g) |->
                 [k \in 1..Len(UvSet(g)[i]) |-> Vector2(UvSet(g)[i][k].y, UvSet(g)[i][k].x)]]))

\* UvUtils.getGeometryUVs(geometry, getClones): the flat list of UVs, face by face
RECURSIVE Flatten(_)
Flatten(set) == IF set = << >> THEN << >> ELSE Head(set) \o Flatten(Tail(set))
\* getGeometryUVs with the sense of getClones inverted
getGeometryUVsInverted(g, getClones) ==
    IF IsNull(g) THEN [threw |-> TRUE, value |-> << >>]
    ELSE IF HasUvSet(g) /\ Len(UvSet(g)) > 0
         THEN [threw |-> FALSE,
               value |-> [k \in 1..Len(Flatten(UvSet(g))) |->
                             [uv |-> Flatten(UvSet(g))[k],
                              corner |-> IF getClones THEN k ELSE 0]]]
         ELSE [threw |-> TRUE, value |-> << >>]

\* every entry of the returned list holds a UV value and tells whose object it is:
\* corner k when it is the geometry's own k-th UV of the first set (UVs.push(uv)),
\* corner 0 when it is a clone (UVs.push(uv.clone()))
getGeometryUVs(g, getClones) ==
    IF IsNull(g) THEN [threw |-> TRUE, value |-> << >>]
    ELSE IF HasUvSet(g) /\ Len(UvSet(g)) > 0
         THEN [threw |-> FALSE,
               value |-> [k \in 1..Len(Flatten(UvSet(g))) |->
                             [uv |-> Flatten(UvSet(g))[k],
                              corner |-> IF getClones THEN 0 ELSE k]]]
         ELSE [threw |-> TRUE, value |-> << >>]

\* UvUtils.getMeshUVs(mesh, getClones); a Mesh is [geometry |-> ...]
getMeshUVs(mesh, getClones) ==
    IF IsNull(mesh) THEN [threw |-> TRUE, value |-> << >>]
    ELSE IF IsNull(mesh.geometry) THEN [threw |-> TRUE, value |-> << >>]
    ELSE getGeometryUVs(mesh.geometry, getClones)

\* the number of UVs the deserialization loop of rotateUVsByDegree copies back:
\* attr.count - 2, where attr holds UVs.length * itemSize + 2 floats of itemSize 2
AttrCount(nUVs) == (nUVs * 2 + 2) \div 2
CopiedBack(nUVs) == AttrCount(nUVs) - 2

\* UvUtils.rotateUVsByDegree(mesh, degree)
rotateUVsByDegree(mesh, degree) ==
    IF IsNull(mesh) THEN Threw(Null)
    ELSE IF IsNaN(degree) THEN Threw(mesh.geometry)
    ELSE IF IsNull(mesh.geometry) THEN Threw(mesh.geometry)
    ELSE IF getMeshUVs(mesh, FALSE).threw THEN Threw(mesh.geometry)
    ELSE LET g == mesh.geometry
             UVs == getMeshUVs(mesh, FALSE).value
             \* position of corner k of entry i in the flat list (0-based)
             flat(i, k) == 3 * (i - 1) + (k - 1)
         IN  Returned(WithUvSet(g,
                 [i \in 1..NumUvEntries(g) |->
                     [k \in 1..Len(UvSet(g)[i]) |->
                         IF flat(i, k) < CopiedBack(Len(UVs))
                         THEN RotateZ(UvSet(g)[i][k], degree.n)
                         ELSE UvSet(g)[i][k]]]))

\* UvUtils.matchUVsWithGeometryVertices(geometry)
matchUVsWithGeometryVertices(g) ==
    IF IsNull(g) THEN Threw(g)
    ELSE IF ~HasUvSet(g) THEN Threw(g)
    ELSE IF Len(UvSet(g)) = 0 THEN Threw(g)
    ELSE LET entry == [f \in 1..Len(g.faces) |->
                          <<XY(Vertex(g, g.faces[f].a)), XY(Vertex(g, g.faces[f].b)),
                            XY(Vertex(g, g.faces[f].c))>>]
         IN  WriteOutcome(g, entry)

\* assignUVsToPlanar without its reset of faceVertexUvs[0]: the entries pile up
assignUVsToPlanarNoReset(g) ==
    IF IsNull(g) THEN Threw(g)
    ELSE IF ~HasUvSet(g) THEN Returned(g)
    ELSE Returned(WithUvSet(g, UvSet(g) \o UvSet(g)))

\* ShapeUtils.assignUVsToPlanar(shapeGeo)
assignUVsToPlanar(g) ==
    IF IsNull(g) THEN Threw(g)                      \* TypeError: computeBoundingBox
    ELSE LET offset == Vector2(Neg(BoxMin(g).x), Neg(BoxMin(g).y))
             range == Vector2(Sub(BoxMax(g).x, BoxMin(g).x), Sub(BoxMax(g).y, BoxMin(g).y))
             uv(v) == Vector2(Div(Add(v.x, offset.x), range.x), Div(Add(v.y, offset.y), range.y))
             set == [f \in 1..Len(g.faces) |->
                        <<uv(Vertex(g, g.faces[f].a)), uv(Vertex(g, g.faces[f].b)),
                          uv(Vertex(g, g.faces[f].c))>>]
         IN  Returned([g EXCEPT !.faceVertexUvs =
                          IF HasUvSet(g) THEN <<set>> \o Tail(g.faceVertexUvs) ELSE <<set>>])

-----------------------------------------------------------------------------
(* The UV machine: a geometry and the UvUtils / ShapeUtils calls made on it, *)
(* one after the other.  A call that throws leaves the geometry as the       *)
(* statements executed before the throw left it.                             *)

\* a flat rectangle in the XY plane, as THREE.ShapeGeometry builds it
\* the UV entry of a face: the vertex's (x, y) (THREE.ShapeGeometry), or a unit square
InitialUv(vertices, face, pattern) ==
    IF pattern = "vertex"
    THEN <<XY(vertices[face.a + 1]), XY(vertices[face.b + 1]), XY(vertices[face.c + 1])>>
    ELSE LET unit == <<V2(0, 0), V2(1, 0), V2(1, 1), V2(0, 1)>>
         IN  <<unit[face.a + 1], unit[face.b + 1], unit[face.c + 1]>>

\* nUv = -1: no first UV set at all; otherwise the first set has nUv entries
InitialGeometry(o, w, h, nFaces, nUv, pattern) ==
    LET vertices == <<V3(o, o, 0), V3(o + w, o, 0), V3(o + w, o + h, 0), V3(o, o + h, 0)>>
        faces == SubSeq(<<Face3(0, 1, 2), Face3(0, 2, 3)>>, 1, nFaces)
    IN  Geometry(vertices, faces,
                 IF nUv < 0 THEN << >>
                 ELSE <<[f \in 1..nUv |-> InitialUv(vertices, faces[f], pattern)]>>)

InitialGeometries ==
    {Null} \cup
    UNION {{InitialGeometry(o, w, h, nFaces, nUv, pattern) :
                o \in 0..MaxOrigin, w \in 1..MaxExtent, h \in 1..MaxExtent,
                nUv \in -1..nFaces, pattern \in {"vertex", "unit"}} : nFaces \in 1..2}

\* one 3-corner UV entry per face
WellFormed(g) ==
    /\ ~IsNull(g)
    /\ HasUvSet(g)
    /\ Len(UvSet(g)) = Len(g.faces)
    /\ \A i \in 1..Len(UvSet(g)) : Len(UvSet(g)[i]) = 3

DegreeArgs == {Num(d) : d \in {0, 90, 180, 270}} \cup {NaN}
Mesh(g) == [geometry |-> g]

NoCall == [op |-> "none", arg |-> Null, threw |-> FALSE, before |-> Null]
Called(op, arg, out) == [op |-> op, arg |-> arg, threw |-> out.threw, before |-> geo]

InitUv ==
    /\ geo \in InitialGeometries
    /\ geo0 = geo
    /\ last = NoCall
    /\ steps = 0
    /\ call = Null
    /\ ret = Null
    /\ pc = "uv"

Apply(op, arg, out) ==
    /\ pc = "uv"
    /\ steps < MaxSteps
    /\ geo' = out.value
    /\ last' = Called(op, arg, out)
    /\ steps' = steps + 1
    /\ ret' = Null
    /\ UNCHANGED <<geo0, call, pc>>

SetUvRotationOnGeometry ==
    \E degree \in DegreeArgs :
        Apply("setUvRotationOnGeometry", degree, setUvRotationOnGeometry(degree, geo))

FlipFaceNormalOnGeo ==
    Apply("flipFaceNormalOnGeo", Null, flipFaceNormalOnGeo(geo))

PlaneProjectionOnGeometry ==
    \E origin \in {Null, V3(MaxOrigin, MaxOrigin, 0)} :
        Apply("planeProjectionOnGeometry", origin, planeProjectionOnGeometry(geo, origin))

RotateUVs ==
    Apply("rotateUVs", Null, rotateUVs(geo))

RotateUVsByDegree ==
    \E degree \in DegreeArgs, mesh \in {Null, Mesh(geo)} :
        LET out == rotateUVsByDegree(mesh, degree)
        IN  Apply("rotateUVsByDegree", degree,
                  IF IsNull(mesh) THEN Threw(geo) ELSE out)

MatchUVsWithGeometryVertices ==
    Apply("matchUVsWithGeometryVertices", Null, matchUVsWithGeometryVertices(geo))

\* the call leaves the geometry as it is and returns the list, kept in ret
GetGeometryUVs ==
    \E getClones \in BOOLEAN :
        LET out == getGeometryUVs(geo, getClones)
        IN  /\ pc = "uv"
            /\ steps < MaxSteps
            /\ last' = Called("getGeometryUVs", Null, out)
            /\ ret' = IF out.threw THEN Null
                      ELSE [list |-> out.value, getClones |-> getClones]
            /\ steps' = steps + 1
            /\ UNCHANGED <<geo, geo0, call, pc>>

\* the caller changes an entry of the list getGeometryUVs returned, UVs[k].set(x, y):
\* the object changed is the entry's, the geometry's own one unless it is a clone
SetReturnedUv ==
    /\ pc = "uv"
    /\ steps < MaxSteps
    /\ ~IsNull(ret)
    /\ \E k \in 1..Len(ret.list), uv \in {V2(5, 7)} :
          LET corner == ret.list[k].corner
              i == ((corner - 1) \div 3) + 1
              j == ((corner - 1) % 3) + 1
          IN  /\ ret' = [ret EXCEPT !.list[k].uv = uv]
              /\ geo' = IF corner = 0 THEN geo
                        ELSE WithUvSet(geo, [UvSet(geo) EXCEPT ![i][j] = uv])
              /\ last' = [op |-> "setReturnedUv", arg |-> [k |-> k, uv |-> uv],
                          threw |-> FALSE, before |-> geo]
    /\ steps' = steps + 1
    /\ UNCHANGED <<geo0, call, pc>>

AssignUVsToPlanar ==
    Apply("assignUVsToPlanar", Null, assignUVsToPlanar(geo))

NextUv ==
    \/ SetUvRotationOnGeometry
    \/ FlipFaceNormalOnGeo
    \/ PlaneProjectionOnGeometry
    \/ RotateUVs
    \/ RotateUVsByDegree
    \/ MatchUVsWithGeometryVertices
    \/ GetGeometryUVs
    \/ SetReturnedUv
    \/ AssignUVsToPlanar

Spec == InitUv /\ [][NextUv]_vars

-----------------------------------------------------------------------------
(* Values passed to and returned by the static functions.  An array       *)
(* argument is a record holding its elements, which null is not.          *)

List(seq) == [list |-> seq]
Throws == Threw(Null)

\* Vector3.distanceToSquared
DistSq(a, b) ==
    LET dx == Sub(a.x, b.x)
        dy == Sub(a.y, b.y)
        dz == Sub(a.z, b.z)
    IN  Add(Add(Mul(dx, dx), Mul(dy, dy)), Mul(dz, dz))

-----------------------------------------------------------------------------
(* VectorUtils: containment.  Coordinates given to contains, isInLine and  *)
(* isInline are whole numbers of thousandths, the unit of isInline's       *)
(* tolerance, so that distances compare exactly.                           *)

InlineTol == 1     \* .001, in thousandths

\* sqrt(c1) + sqrt(c2) - sqrt(a) < e for integers a, c1, c2 >= 0 and e > 0,
\* decided by squaring twice
WithinTolerance(a, c1, c2, e) ==
    LET D == a + e * e - c1 - c2
        E == 4 * c1 * c2 - D * D - 4 * e * e * a
    IN  IF D <= 0 /\ D * D >= 4 * e * e * a THEN FALSE
        ELSE IF D >= 0 THEN E < 0 \/ E * E < 16 * e * e * a * D * D
        ELSE E < 0 /\ E * E > 16 * e * e * a * D * D

\* the value of a number that is a whole number
Whole(a) == CASE a.d = 1 -> a.n

\* VectorUtils.isInline(a, b, c)
isInline(a, b, c) ==
    IF IsNull(a) \/ IsNull(b) \/ IsNull(c) THEN Throws
    ELSE LET ab == DistSq(a, b)
             ac == DistSq(a, c)
             cb == DistSq(c, b)
         IN  IF ~IsFinite(ab) \/ ~IsFinite(ac) \/ ~IsFinite(cb) THEN Returned(FALSE)
             ELSE Returned(WithinTolerance(Whole(ab), Whole(ac), Whole(cb), InlineTol))

\* VectorUtils.isInLine(points, point)
isInLine(points, point) ==
    IF IsNull(points) THEN Throws
    ELSE IF IsNull(point) THEN Throws
    ELSE LET size == Len(points.list)
             edge(i) == isInline(points.list[i], points.list[(i % size) + 1], point)
             stops == {i \in 1..size : edge(i).threw \/ edge(i).value}
         IN  IF stops = {} THEN Returned(FALSE)
             ELSE LET first == CHOOSE i \in stops : \A o \in stops : i <= o
                  IN  IF edge(first).threw THEN Throws ELSE Returned(TRUE)

\* the loop of pointInPolygon: oddNodes after the last edge
OddNodes(vectors, point) ==
    LET n == Len(vectors)
        toggles(i) ==
            LET vi == vectors[i]
                vj == vectors[IF i = 1 THEN n ELSE i - 1]
            IN  /\ \/ Lt(vi.y, point.y) /\ Ge(vj.y, point.y)
                   \/ Lt(vj.y, point.y) /\ Ge(vi.y, point.y)
                /\ Lt(vi.x, point.x) \/ Le(vj.x, point.x)
                /\ Lt(Add(vi.x, Mul(Div(Sub(point.y, vi.y), Sub(vj.y, vi.y)),
                                    Sub(vj.x, vi.x))),
                      point.x)
    IN  Cardinality({i \in 1..n : toggles(i)}) % 2 = 1

\* pointInPolygon with a throwing null check
pointInPolygonThrowing(vectors, point) ==
    IF IsNull(vectors) \/ IsNull(point) THEN Throws
    ELSE Returned(OddNodes(vectors.list, point))

\* VectorUtils.pointInPolygon(vectors, point)
pointInPolygon(vectors, point) ==
    IF IsNull(vectors) \/ IsNull(point) THEN Returned(FALSE)
    ELSE Returned(OddNodes(vectors.list, point))

\* contains without the test of the interior
containsOnEdgesOnly(points, point) == isInLine(points, point)

\* VectorUtils.contains(points, point)
contains(points, point) ==
    LET inLine == isInLine(points, point)
    IN  IF inLine.threw THEN Throws
        ELSE IF inLine.value THEN Returned(TRUE)
        ELSE pointInPolygon(points, point)

\* VectorUtils.isXYValuesNumbers(v)
isXYValuesNumbers(v) == ~(IsNaN(v.x) \/ IsNaN(v.y))

\* isPointInsidePoints counting a side whose first end lies on the ray's level
\* but not one whose second end does
isPointInsidePointsUneven(point, shapePoints) ==
    IF IsNull(point) \/ IsNull(shapePoints) THEN Returned(FALSE)
    ELSE IF ~isXYValuesNumbers(point) \/ Len(shapePoints.list) = 0 THEN Returned(FALSE)
    ELSE LET n == Len(shapePoints.list)
             intersect(i) ==
                 LET pi == shapePoints.list[i]
                     pj == shapePoints.list[IF i = 1 THEN n ELSE i - 1]
                 IN  /\ Ge(pi.y, point.y) # Gt(pj.y, point.y)
                     /\ Lt(point.x,
                           Add(Div(Mul(Sub(pj.x, pi.x), Sub(point.y, pi.y)),
                                   Sub(pj.y, pi.y)),
                               pi.x))
         IN  Returned(Cardinality({i \in 1..n : intersect(i)}) % 2 = 1)

\* VectorUtils.isPointInsidePoints(point, shapePoints)
isPointInsidePoints(point, shapePoints) ==
    IF IsNull(point) \/ IsNull(shapePoints) THEN Returned(FALSE)
    ELSE IF ~isXYValuesNumbers(point) \/ Len(shapePoints.list) = 0 THEN Returned(FALSE)
    ELSE LET n == Len(shapePoints.list)
             intersect(i) ==
                 LET pi == shapePoints.list[i]
                     pj == shapePoints.list[IF i = 1 THEN n ELSE i - 1]
                 IN  /\ Gt(pi.y, point.y) # Gt(pj.y, point.y)
                     /\ Lt(point.x,
                           Add(Div(Mul(Sub(pj.x, pi.x), Sub(point.y, pi.y)),
                                   Sub(pj.y, pi.y)),
                               pi.x))
         IN  Returned(Cardinality({i \in 1..n : intersect(i)}) % 2 = 1)

\* VectorUtils.isPointInsideShape2D(point, points)
isPointInsideShape2D(point, points) ==
    IF IsNull(point) \/ IsNull(points) THEN Returned(FALSE)
    ELSE IF Len(points.list) > 2 THEN isPointInsidePoints(point, points)
    ELSE Returned(FALSE)

-----------------------------------------------------------------------------
(* VectorUtils: vector construction, centroid, transformation of points    *)

RECURSIVE SumNums(_)
SumNums(s) == IF s = << >> THEN Zero ELSE Add(Head(s), SumNums(Tail(s)))

\* VectorUtils.addVectors(focalPoint, transformVector)
addVectors(focalPoint, transformVector) ==
    IF IsNull(focalPoint) \/ IsNull(transformVector) THEN Throws
    ELSE Returned(Vector3(Add(focalPoint.x, transformVector.x),
                         Add(focalPoint.y, transformVector.y),
                         Add(focalPoint.z, transformVector.z)))

\* VectorUtils.createVector3(tail, head)
createVector3(tail, head) ==
    IF IsNull(tail) \/ IsNull(head) THEN Throws
    ELSE Returned(Vector3(Sub(head.x, tail.x), Sub(head.y, tail.y), Sub(head.z, tail.z)))

\* getCentroid over the open list: the edge from the last point back to the first
\* is left out
getCentroidOpen(vectors) ==
    IF IsNull(vectors) THEN Throws
    ELSE IF Len(vectors.list) = 0 THEN Throws
    ELSE LET points == vectors.list
             count == Len(points) - 1
             multiplier(i) == Sub(Mul(points[i].x, points[i + 1].y),
                                  Mul(points[i + 1].x, points[i].y))
             sixAreas == Mul(Num(3), SumNums([i \in 1..count |-> multiplier(i)]))
             sum(c) == SumNums([i \in 1..count |->
                           Mul(Add(points[i][c], points[i + 1][c]), multiplier(i))])
         IN  Returned(Vector3(Div(sum("x"), sixAreas), Div(sum("y"), sixAreas),
                              Div(sum("z"), sixAreas)))

\* VectorUtils.getCentroid(vectors)
getCentroid(vectors) ==
    IF IsNull(vectors) THEN Throws
    ELSE IF Len(vectors.list) = 0 THEN Throws
    ELSE LET points == Append(vectors.list, vectors.list[1])
             count == Len(points) - 1
             multiplier(i) == Sub(Mul(points[i].x, points[i + 1].y),
                                  Mul(points[i + 1].x, points[i].y))
             area == Div(SumNums([i \in 1..count |-> multiplier(i)]), Num(2))
             x == SumNums([i \in 1..count |->
                      Mul(Add(points[i].x, points[i + 1].x), multiplier(i))])
             y == SumNums([i \in 1..count |->
                      Mul(Add(points[i].y, points[i + 1].y), multiplier(i))])
             z == SumNums([i \in 1..count |->
                      Mul(Add(points[i].z, points[i + 1].z), multiplier(i))])
             sixAreas == Mul(Num(6), area)
         IN  Returned(Vector3(Div(x, sixAreas), Div(y, sixAreas), Div(z, sixAreas)))

\* the default epsilon of equals, .01
Epsilon == Rat(1, 100)

\* VectorUtils.equals(a, b, epsilon)
equals(a, b, epsilon) ==
    IF IsNull(a) \/ IsNull(b) THEN Throws
    ELSE Returned(Le(DistSq(a, b), epsilon))

\* isPointOutsideCorner with a flat cross product counted as outside
isPointOutsideCornerOrFlat(current, next, previous) ==
    IF IsNull(current) \/ IsNull(next) \/ IsNull(previous) THEN Throws
    ELSE LET u == Vector3(Sub(current.x, previous.x), Sub(current.y, previous.y),
                          Sub(current.z, previous.z))
             v == Vector3(Sub(current.x, next.x), Sub(current.y, next.y),
                          Sub(current.z, next.z))
             crossProduct == Vector3(Sub(Mul(v.y, u.z), Mul(v.z, u.y)),
                                     Sub(Mul(v.z, u.x), Mul(v.x, u.z)),
                                     Sub(Mul(v.x, u.y), Mul(v.y, u.x)))
         IN  Returned(Le(crossProduct.z, Zero))

\* VectorUtils.isPointInsideCorner(current, next, previous); the length of the
\* cross product is zero exactly when its three components are
isPointInsideCorner(current, next, previous) ==
    IF IsNull(current) \/ IsNull(next) \/ IsNull(previous) THEN Throws
    ELSE LET u == Vector3(Sub(current.x, previous.x), Sub(current.y, previous.y),
                          Sub(current.z, previous.z))
             v == Vector3(Sub(current.x, next.x), Sub(current.y, next.y),
                          Sub(current.z, next.z))
             crossProduct == Vector3(Sub(Mul(v.y, u.z), Mul(v.z, u.y)),
                                     Sub(Mul(v.z, u.x), Mul(v.x, u.z)),
                                     Sub(Mul(v.x, u.y), Mul(v.y, u.x)))
         IN  IF crossProduct = Vector3(Zero, Zero, Zero) THEN Returned(FALSE)
             ELSE Returned(Ge(crossProduct.z, Zero))

\* VectorUtils.isPointOutsideCorner(current, next, previous)
isPointOutsideCorner(current, next, previous) ==
    IF IsNull(current) \/ IsNull(next) \/ IsNull(previous) THEN Throws
    ELSE LET u == Vector3(Sub(current.x, previous.x), Sub(current.y, previous.y),
                          Sub(current.z, previous.z))
             v == Vector3(Sub(current.x, next.x), Sub(current.y, next.y),
                          Sub(current.z, next.z))
             crossProduct == Vector3(Sub(Mul(v.y, u.z), Mul(v.z, u.y)),
                                     Sub(Mul(v.z, u.x), Mul(v.x, u.z)),
                                     Sub(Mul(v.x, u.y), Mul(v.y, u.x)))
         IN  IF crossProduct = Vector3(Zero, Zero, Zero) THEN Returned(FALSE)
             ELSE Returned(Lt(crossProduct.z, Zero))

\* VectorUtils.arrayEquals(aVector3s, bVector3s)
arrayEquals(aVector3s, bVector3s) ==
    IF IsNull(aVector3s) \/ IsNull(bVector3s)
    THEN Returned(IsNull(aVector3s) /\ IsNull(bVector3s))
    ELSE IF Len(aVector3s.list) # Len(bVector3s.list) THEN Returned(FALSE)
    ELSE Returned(\A i \in 1..Len(aVector3s.list) :
                      equals(aVector3s.list[i], bVector3s.list[i], Epsilon).value)

\* VectorUtils.isAllValuesNumbers(v)
isAllValuesNumbers(v) == ~(IsNaN(v.x) \/ IsNaN(v.y) \/ IsNaN(v.z))

\* hasDistanceOrDirection without the comparison with the zero vector
hasDistanceOrDirectionAnyLength(v) == isAllValuesNumbers(v)

\* VectorUtils.hasDistanceOrDirection(v)
hasDistanceOrDirection(v) ==
    IF ~isAllValuesNumbers(v) THEN FALSE
    ELSE ~equals(v, V3(0, 0, 0), Epsilon).value

\* AboutPivot without the final p.add(pivot)
AboutPivotNotRestored(p, pivot, row1, row2, row3) ==
    LET q == Vector3(Sub(p.x, pivot.x), Sub(p.y, pivot.y), Sub(p.z, pivot.z))
        dot(row) == Add(Add(Mul(row[1], q.x), Mul(row[2], q.y)), Mul(row[3], q.z))
    IN  Vector3(dot(row1), dot(row2), dot(row3))

\* p.sub(pivot); p.applyMatrix4(m); p.add(pivot), where row(r) is the r-th row
\* of m's upper 3x3 block and m has no translation
AboutPivot(p, pivot, row1, row2, row3) ==
    LET q == Vector3(Sub(p.x, pivot.x), Sub(p.y, pivot.y), Sub(p.z, pivot.z))
        dot(row) == Add(Add(Mul(row[1], q.x), Mul(row[2], q.y)), Mul(row[3], q.z))
    IN  Vector3(Add(dot(row1), pivot.x), Add(dot(row2), pivot.y), Add(dot(row3), pivot.z))

\* p rotated about pivot by Matrix4.makeRotationAxis(axis, degToRad(deg)),
\* deg a multiple of 90; the sine and cosine are taken as exact
RotateAbout(p, pivot, axis, deg) ==
    LET c == Num(CosDeg(deg))
        s == Num(SinDeg(deg))
        t == Sub(Num(1), c)
        tx == Mul(t, axis.x)
        ty == Mul(t, axis.y)
    IN  AboutPivot(p, pivot,
            <<Add(Mul(tx, axis.x), c), Sub(Mul(tx, axis.y), Mul(s, axis.z)),
              Add(Mul(tx, axis.z), Mul(s, axis.y))>>,
            <<Add(Mul(tx, axis.y), Mul(s, axis.z)), Add(Mul(ty, axis.y), c),
              Sub(Mul(ty, axis.z), Mul(s, axis.x))>>,
            <<Sub(Mul(tx, axis.z), Mul(s, axis.y)), Add(Mul(ty, axis.z), Mul(s, axis.x)),
              Add(Mul(Mul(t, axis.z), axis.z), c)>>)


\* flipPointsHorizontallyFromPoint turning about the X axis
flipPointsVerticallyFromPoint(points, divergingPoint) ==
    IF IsNull(points) THEN Threw(points)
    ELSE IF Len(points.list) = 0 THEN Threw(points)
    ELSE IF IsNull(divergingPoint) THEN Threw(points)
    ELSE IF ~isAllValuesNumbers(divergingPoint) THEN Threw(points)
    ELSE Returned(List([i \in 1..Len(points.list) |->
             RotateAbout(points.list[i], divergingPoint, V3(1, 0, 0), 180)]))

\* VectorUtils.flipPointsHorizontallyFromPoint(points, divergingPoint)
flipPointsHorizontallyFromPoint(points, divergingPoint) ==
    IF IsNull(points) THEN Threw(points)
    ELSE IF Len(points.list) = 0 THEN Threw(points)
    ELSE IF IsNull(divergingPoint) THEN Threw(points)
    ELSE IF ~isAllValuesNumbers(divergingPoint) THEN Threw(points)
    ELSE Returned(List([i \in 1..Len(points.list) |->
             RotateAbout(points.list[i], divergingPoint, V3(0, 1, 0), 180)]))

\* VectorUtils.rotatePointsFromPoint(degree, points, pointToRotateAround, rotationAxis)
rotatePointsFromPoint(degree, points, pointToRotateAround, rotationAxis) ==
    IF IsNaN(degree) \/ degree = Zero THEN Threw(points)
    ELSE IF IsNull(points) THEN Threw(points)
    ELSE IF Len(points.list) = 0 THEN Threw(points)
    ELSE IF IsNull(pointToRotateAround) THEN Threw(points)
    ELSE IF ~isAllValuesNumbers(pointToRotateAround) THEN Threw(points)
    ELSE IF IsNull(rotationAxis) THEN Threw(points)
    ELSE IF ~hasDistanceOrDirection(rotationAxis) THEN Threw(points)
    ELSE Returned(List([i \in 1..Len(points.list) |->
             RotateAbout(points.list[i], pointToRotateAround, rotationAxis, degree.n)]))

\* VectorUtils.scalePointsFromPoint(scale, points, pointToScaleAround)
scalePointsFromPoint(scale, points, pointToScaleAround) ==
    IF IsNull(scale) THEN Threw(points)
    ELSE IF IsNull(points) THEN Threw(points)
    ELSE IF Len(points.list) = 0 THEN Threw(points)
    ELSE IF IsNull(pointToScaleAround) THEN Threw(points)
    ELSE IF ~isAllValuesNumbers(pointToScaleAround) THEN Threw(points)
    ELSE Returned(List([i \in 1..Len(points.list) |->
             AboutPivot(points.list[i], pointToScaleAround,
                        <<scale.x, Zero, Zero>>, <<Zero, scale.y, Zero>>,
                        <<Zero, Zero, scale.z>>)]))

-----------------------------------------------------------------------------
(* ShapeFactory: contours and extrusion.  The directions that occur are    *)
(* the eight compass directions, whose angles are whole degrees.           *)

\* Math.atan2(y, x) in degrees, in (-180, 180], for a compass direction or zero
Atan2Deg(y, x) ==
    LET sx == SignOf(x.n)
        sy == SignOf(y.n)
    IN  CASE sy = 0 /\ sx >= 0 -> 0
          [] sy = 0 /\ sx < 0 -> 180
          [] sx = 0 /\ sy > 0 -> 90
          [] sx = 0 /\ sy < 0 -> -90
          [] Abs(x.n * y.d) = Abs(y.n * x.d) /\ sx > 0 -> 45 * sy
          [] Abs(x.n * y.d) = Abs(y.n * x.d) /\ sx < 0 -> 135 * sy

\* Vector2.angle(): the angle in [0, 360)
AngleDeg(v) ==
    LET a == Atan2Deg(v.y, v.x)
    IN  IF a < 0 THEN a + 360 ELSE a

\* Math.tan of a multiple of 45 degrees; at -90 and 90 degrees the double it
\* returns is of the order of 1e16, taken here as the infinity it stands for
TanDeg(deg) ==
    CASE deg % 180 = 0 -> Zero
      [] deg % 180 = 45 -> Num(1)
      [] deg % 180 = 135 -> Num(-1)
      [] deg = -90 -> Inf(-1)
      [] deg = 90 -> Inf(1)

\* the offset point of corner i of offsetContour
OffsetCorner(padding, contour, i) ==
    LET n == Len(contour)
        at == contour[i]
        prev == contour[IF i = 1 THEN n ELSE i - 1]
        next == contour[IF i = n THEN 1 ELSE i + 1]
        v1 == Vector2(Sub(prev.x, at.x), Sub(prev.y, at.y))
        v2 == Vector2(Sub(next.x, at.x), Sub(next.y, at.y))
        angle == AngleDeg(v2) - AngleDeg(v1)
        hA == angle \div 2
        tA == AngleDeg(v2) + 90
        shift == TanDeg(hA - 90)
        \* shiftMatrix applied to (-padding, 0, 0)
        sx == Neg(padding)
        sy == Mul(Neg(shift), Neg(padding))
        \* rotationMatrix
        c == Num(CosDeg(tA))
        s == Num(SinDeg(tA))
        rx == Sub(Mul(c, sx), Mul(s, sy))
        ry == Add(Mul(s, sx), Mul(c, sy))
    \* translationMatrix
    IN  Vector2(Add(rx, at.x), Add(ry, at.y))

\* offsetContour without the closing copy of its first point
offsetContourOpen(padding, contour) ==
    IF IsNull(contour) THEN Throws
    ELSE LET result == [i \in 1..Len(contour.list) |->
                           OffsetCorner(padding, contour.list, i)]
         IN  IF result = << >> THEN Throws
             ELSE Returned(List(result))

\* ShapeFactory.offsetContour(padding, contour)
offsetContour(padding, contour) ==
    IF IsNull(contour) THEN Throws
    ELSE LET result == [i \in 1..Len(contour.list) |->
                           OffsetCorner(padding, contour.list, i)]
         IN  IF result = << >> THEN Throws
             ELSE Returned(List(Append(result, result[1])))

\* Vector3.normalize() of a vector along the x or the y axis, or of the zero
\* vector (which it leaves as it is)
Normalize(v) ==
    CASE v.z = Zero /\ (v.x = Zero \/ v.y = Zero) ->
            Vector3(Num(SignOf(v.x.n)), Num(SignOf(v.y.n)), Zero)

\* findNormal with the direction turned clockwise
findNormalClockwise(start, end) ==
    IF IsNull(start) \/ IsNull(end) THEN Throws
    ELSE Returned(Normalize(Vector3(Sub(end.y, start.y), Neg(Sub(end.x, start.x)),
                                   Sub(end.z, start.z))))

\* ShapeUtils.findNormal(start, end)
findNormal(start, end) ==
    IF IsNull(start) \/ IsNull(end) THEN Throws
    ELSE Returned(Normalize(Vector3(Neg(Sub(end.y, start.y)), Sub(end.x, start.x),
                                   Sub(end.z, start.z))))

\* VectorUtils.getAngleBetweenTwoVectorsInDeg(p1, p2)
getAngleBetweenTwoVectorsInDeg(p1, p2) == Atan2Deg(p2.y, p2.x) - Atan2Deg(p1.y, p1.x)

\* the element of a list at a 1-based index, undefined outside the list
ElementAt(seq, i) == IF i \in DOMAIN seq THEN seq[i] ELSE Null

\* the second loop of completeContour from index i (1-based) down to the first
\* point.  The normalized sum of two normals has the direction of their sum;
\* where they are at right angles (angle 45, ratio 1, scale sqrt(2)) it is their
\* sum over sqrt(2), so that times newOffset it is their sum times offset.
RECURSIVE Project(_, _, _, _)
Project(offset, points, normals, i) ==
    IF i < 1 THEN << >>
    ELSE LET scaled(v) == Vector3(Mul(v.x, offset), Mul(v.y, offset), Mul(v.z, offset))
             plain == addVectors(points[i], scaled(normals[i])).value
             junction == /\ i < Len(points)
                         /\ i - 2 >= 1
                         /\ equals(points[i], points[i - 1], Rat(1, 1000)).value
             sum == addVectors(normals[i], normals[i - 1]).value
             angle == Abs(getAngleBetweenTwoVectorsInDeg(sum, normals[i - 1]))
         IN  IF junction /\ angle >= 40 /\ angle <= 50
             THEN <<addVectors(points[i], scaled(sum)).value>>
                      \o Project(offset, points, normals, i - 2)
             ELSE <<plain>> \o Project(offset, points, normals, i - 1)

\* the third loop of completeContour: neighbouring duplicates dropped
RECURSIVE DropDuplicates(_)
DropDuplicates(seq) ==
    IF Len(seq) <= 1 THEN seq
    ELSE LET kept == DropDuplicates(SubSeq(seq, 1, Len(seq) - 1))
             point == seq[Len(seq)]
         IN  IF equals(point, kept[Len(kept)], Rat(1, 1000)).value THEN kept
             ELSE Append(kept, point)

\* ShapeFactory.completeContour(offset, contourPoints)
completeContour(offset, contourPoints) ==
    IF IsNull(contourPoints) THEN Throws
    ELSE LET points == contourPoints.list
             n == Len(points)
             normal(i) == IF i = 1 THEN findNormal(points[1], ElementAt(points, 2))
                          ELSE IF i # n THEN findNormal(points[i - 1], points[i + 1])
                          ELSE findNormal(points[i - 1], points[i])
         IN  IF \E i \in 1..n : normal(i).threw THEN Throws
             ELSE Returned(List(DropDuplicates(
                      points \o Project(offset, points, [i \in 1..n |-> normal(i).value], n))))

\* VectorUtils.transformVector3sToVector2s(vector3s)
transformVector3sToVector2s(vector3s) ==
    IF IsNull(vector3s) THEN Throws
    ELSE Returned(List([i \in 1..Len(vector3s.list) |-> XY(vector3s.list[i])]))

\* ShapeFactory.createExtrudeGeometry(points, extrudeAmount, ...): the geometry is
\* the shape it was made of and the extrusion amount; undefined is Null
createExtrudeGeometry(points, extrudeAmount) ==
    IF IsNull(points) THEN Returned(Null)
    ELSE IF Len(points.list) = 0 THEN Returned(Null)
    ELSE Returned([shape |-> transformVector3sToVector2s(points).value,
                  amount |-> extrudeAmount])

\* ShapeFactory.createExtrudedShape(points, extrudeAmount, ...)
createExtrudedShape(points, extrudeAmount) ==
    IF IsNull(points) THEN Throws
    ELSE IF Len(points.list) = 0 THEN Throws
    ELSE LET extrudedGeometry == createExtrudeGeometry(points, extrudeAmount)
         IN  IF extrudedGeometry.threw THEN Throws
             ELSE Returned(Mesh(extrudedGeometry.value))

\* Vector3.distanceTo for two points a whole distance apart
distanceTo(a, b) == Num(CHOOSE r \in 0..DistSq(a, b).n : r * r = DistSq(a, b).n)

\* ShapeFactory.createBoardPlaneGeometry(points, textureRotateDegree) for the contours
\* createBoardMesh3D passes, (0,0), (0,h), (w,h), (w,0): THREE.ShapeGeometry keeps the
\* four points as vertices in the z = 0 plane, splits the rectangle along one of its
\* diagonals (which one is the triangulation's choice) into two faces that are
\* counter-clockwise seen from +z, and gives every face corner its vertex's (x, y)
\* as UV
createBoardPlaneGeometry(points, textureRotateDegree, diagonal) ==
    LET vertices == [i \in 1..Len(points) |-> Vector3(points[i].x, points[i].y, Zero)]
        faces == IF diagonal THEN <<Face3(0, 3, 2), Face3(0, 2, 1)>>
                 ELSE <<Face3(3, 2, 1), Face3(3, 1, 0)>>
        uvs == [f \in 1..Len(faces) |->
                   <<points[faces[f].a + 1], points[faces[f].b + 1], points[faces[f].c + 1]>>]
        geo0_ == Geometry(vertices, faces, <<uvs>>)
    IN  setUvRotationOnGeometry(Num(textureRotateDegree), geo0_).value

\* a rotation by the opposite angle
applyRotationReversed(g, axis, deg) ==
    LET c == Num(CosDeg(deg))
        s == Num(SinDeg(-deg))
        turn(v) == IF axis = "x"
                   THEN Vector3(v.x, Sub(Mul(c, v.y), Mul(s, v.z)), Add(Mul(s, v.y), Mul(c, v.z)))
                   ELSE Vector3(Add(Mul(c, v.x), Mul(s, v.z)), v.y, Sub(Mul(c, v.z), Mul(s, v.x)))
    IN  [g EXCEPT !.vertices = [i \in 1..Len(g.vertices) |-> turn(g.vertices[i])]]

\* geometry.applyMatrix(matrix.makeRotationX(degToRad(deg))) for axis "x",
\* makeRotationY for axis "y"; deg a multiple of 90
applyRotation(g, axis, deg) ==
    LET c == Num(CosDeg(deg))
        s == Num(SinDeg(deg))
        turn(v) == IF axis = "x"
                   THEN Vector3(v.x, Sub(Mul(c, v.y), Mul(s, v.z)), Add(Mul(s, v.y), Mul(c, v.z)))
                   ELSE Vector3(Add(Mul(c, v.x), Mul(s, v.z)), v.y, Sub(Mul(c, v.z), Mul(s, v.x)))
    IN  [g EXCEPT !.vertices = [i \in 1..Len(g.vertices) |-> turn(g.vertices[i])]]

\* geometry.applyMatrix(matrix.makeTranslation(x, y, z))
applyTranslation(g, x, y, z) ==
    [g EXCEPT !.vertices = [i \in 1..Len(g.vertices) |->
        Vector3(Add(g.vertices[i].x, x), Add(g.vertices[i].y, y), Add(g.vertices[i].z, z))]]

\* Geometry.merge(geometry2): vertices, faces (indices moved up) and UVs appended
merge(g, geometry2) ==
    LET offset == Len(g.vertices)
    IN  Geometry(g.vertices \o geometry2.vertices,
                 g.faces \o [f \in 1..Len(geometry2.faces) |->
                                Face3(geometry2.faces[f].a + offset, geometry2.faces[f].b + offset,
                                      geometry2.faces[f].c + offset)],
                 <<UvSet(g) \o UvSet(geometry2)>>)

\* Geometry.mergeVertices(): every vertex is replaced by the first vertex at its
\* position, and the faces that collapse are dropped with their UVs
mergeVertices(g) ==
    LET n == Len(g.vertices)
        first(i) == CHOOSE j \in 1..i : /\ g.vertices[j] = g.vertices[i]
                                        /\ \A k \in 1..(j - 1) : g.vertices[k] # g.vertices[i]
        unique == {i \in 1..n : first(i) = i}
        rank(i) == Cardinality({k \in unique : k < i})
        changed(face) == Face3(rank(first(face.a + 1)), rank(first(face.b + 1)),
                               rank(first(face.c + 1)))
        kept == {f \in 1..Len(g.faces) :
                    LET face == changed(g.faces[f])
                    IN  face.a # face.b /\ face.b # face.c /\ face.c # face.a}
        nth(set, r) == CHOOSE i \in set : Cardinality({k \in set : k < i}) = r - 1
    IN  Geometry([r \in 1..Cardinality(unique) |-> g.vertices[nth(unique, r)]],
                 [r \in 1..Cardinality(kept) |-> changed(g.faces[nth(kept, r)])],
                 <<[r \in 1..Cardinality(kept) |-> UvSet(g)[nth(kept, r)]]>>)

\* ShapeFactory.createBoardMesh3D(points, material); diagonals are the three
\* triangulations
createBoardMesh3D(points, diagonals) ==
    IF IsNull(points) THEN Throws
    ELSE IF Len(points.list) < 5 THEN Throws     \* TypeError: points[4] is undefined
    ELSE LET length == distanceTo(points.list[1], points.list[2])
             width == distanceTo(points.list[2], points.list[3])
             thickness == distanceTo(points.list[1], points.list[5])
             contour(w, h) == <<Vector2(Zero, Zero), Vector2(Zero, h), Vector2(w, h),
                                Vector2(w, Zero)>>
             sidePlane1 == createBoardPlaneGeometry(contour(length, width), 0, diagonals[1])
             sidePlane3 == applyTranslation(applyRotation(sidePlane1, "x", 180),
                                            Zero, width, Neg(thickness))
             plane2 == createBoardPlaneGeometry(contour(length, thickness), 0, diagonals[2])
             sidePlane2 == applyTranslation(applyRotation(plane2, "x", -90), Zero, width, Zero)
             sidePlane4 == flipFaceNormalOnGeo(applyRotation(plane2, "x", -90)).value
             endPlane == applyRotation(
                             createBoardPlaneGeometry(contour(thickness, width), 90, diagonals[3]),
                             "y", 90)
             endPlane1 == applyTranslation(endPlane, length, Zero, Zero)
             endPlane2 == flipFaceNormalOnGeo(endPlane).value
             boardGeo == merge(merge(merge(merge(merge(merge(
                             Geometry(<< >>, << >>, << << >> >>),
                             sidePlane1), sidePlane2), sidePlane3), sidePlane4),
                             endPlane1), endPlane2)
         IN  Returned(Mesh(mergeVertices(boardGeo)))

-----------------------------------------------------------------------------
(* Colors (src/src/utils/Colors.ts) and Curve (src/src/utils/Curve.ts): the  *)
(* declared constants, each an instance of its own, and the lookup by      *)
(* value.  A colour value is the number its hexadecimal literal denotes.   *)
(* A call of findByValue holds its argument, a string, as curve.           *)
(***************************************************************************)

\* new Colors(_value), assigned to the static field of that name
Colors(name, value) == [name |-> name, value |-> value]

\* the static readonly fields of Colors, in the order of their declaration
ColorsConstants ==
    <<Colors("ABSOLUTE_BLACK", Num(0)),
      Colors("BLACK", Num(137497)),
      Colors("PITCH_BLACK", Num(0)),
      Colors("BLUE", Num(2984950)),
      Colors("DARK_BLUE", Num(739194)),
      Colors("AQUA_BLUE", Num(42751)),
      Colors("AQUA_BLUE_LIGHT", Num(8303607)),
      Colors("LIGHT_BLUE", Num(9355512)),
      Colors("BROWN", Num(11421954)),
      Colors("LIGHT_BROWN", Num(13468991)),
      Colors("DARK_BROWN", Num(8214813)),
      Colors("DEEP_BROWN", Num(4335109)),
      Colors("TAN", Num(13676119)),
      Colors("LIGHT_TAN", Num(14929562)),
      Colors("GREY", Num(10066329)),
      Colors("DARK_GREY", Num(5264727)),
      Colors("LIGHT_GREY", Num(15592941)),
      Colors("GREEN", Num(7403055)),
      Colors("GREEN_DARK", Num(48640)),
      Colors("MENARDS_GREEN", Num(39485)),
      Colors("MENARDS_GREEN_LIGHT", Num(3523679)),
      Colors("MENARDS_YELLOW", Num(16239881)),
      Colors("DARK_YELLOW", Num(11178272)),
      Colors("RED", Num(16711680)),
      Colors("LIGHT_RED", Num(16724787)),
      Colors("WHITE", Num(16119026)),
      Colors("PURE_WHITE", Num(16777215))>>

\* Colors.values once the class is initialised: every constructor call has done
\* values.set(_value, this), a later one replacing an earlier one with its key
values ==
    [value \in {ColorsConstants[i].value : i \in DOMAIN ColorsConstants} |->
        LET last_ == CHOOSE i \in DOMAIN ColorsConstants :
                        /\ ColorsConstants[i].value = value
                        /\ \A j \in DOMAIN ColorsConstants :
                               ColorsConstants[j].value = value => j <= i
        IN  ColorsConstants[last_]]

\* Colors.fromValue(value)
fromValue(value) ==
    IF value \in DOMAIN values THEN Returned(values[value]) ELSE Returned(Null)

\* new Curve(value), assigned to the static field of that name
Curve(name, value) == [name |-> name, value |-> value]

\* the static readonly fields of Curve
CurveConstants ==
    <<Curve("BEZIER", "bezier"), Curve("QUADRATIC", "quadratic"), Curve("CIRCLE", "circle"),
      Curve("SEMICIRCLE", "semicircle"), Curve("FREEFORM", "freeform")>>

\* Curve.findByValue(value): the first case of the switch that value equals
findByValue(value) ==
    IF \E i \in DOMAIN CurveConstants : CurveConstants[i].value = value
    THEN Returned(CurveConstants[CHOOSE i \in DOMAIN CurveConstants :
                      /\ CurveConstants[i].value = value
                      /\ \A j \in DOMAIN CurveConstants :
                             CurveConstants[j].value = value => i <= j])
    ELSE Returned(Null)

(***************************************************************************)
(* Shape2D (src/src/webgl/SceneSample.ts): a polygon of Vector2 points and  *)
(* its sides.  Its mesh, a THREE.ShapeGeometry that none of the side        *)
(* functions reads, is left out.                                            *)
(***************************************************************************)

\* new Line3(start, end)
Line3(start, end) == [start |-> start, end |-> end]

\* createSides with the last side ending on the last point
createSidesOpen(points) ==
    [i \in 1..Len(points) |->
        LET c == points[i]
            n == points[IF i + 1 > Len(points) THEN i ELSE i + 1]
        IN  Line3(Vector3(c.x, c.y, Zero), Vector3(n.x, n.y, Zero))]

\* Shape2D.createSides(): side i of the list (1-based here) starts at point i
createSides(points) ==
    [i \in 1..Len(points) |->
        LET c == points[i]
            n == points[IF i + 1 > Len(points) THEN 1 ELSE i + 1]
        IN  Line3(Vector3(c.x, c.y, Zero), Vector3(n.x, n.y, Zero))]

\* new Shape2D(points)
Shape2D(points) ==
    IF ~IsNull(points) /\ Len(points.list) >= 3
    THEN Returned([points |-> points, sides |-> createSides(points.list)])
    ELSE Throws

\* Shape2D.getSide(sideIndex), the index counted from 0
getSide(shape, sideIndex) ==
    IF Len(shape.sides) > 0 /\ sideIndex \in 0..(Len(shape.sides) - 1)
    THEN shape.sides[sideIndex + 1]
    ELSE Null

\* Shape2D.getSideDistance(index)
getSideDistance(shape, index) ==
    LET side == getSide(shape, index)
    IN  IF ~IsNull(side) THEN distanceTo(side.start, side.end) ELSE Zero

(***************************************************************************)
(* Calls of the static functions: one call per behaviour, its arguments    *)
(* drawn at the start, its outcome recorded in ret.                        *)

\* polygon corners lie on the even coordinates, test points on all of them
GridPoints == {V3(2 * x, 2 * y, 0) : x \in 0..MaxCoord, y \in 0..MaxCoord}
TestPoints ==
    {V3(x, y, 0) : x \in -1..(2 * MaxCoord + 1), y \in -1..(2 * MaxCoord + 1)}

\* z of (b - a) x (c - a), for points with whole coordinates
CrossZ(a, b, c) ==
    (b.x.n - a.x.n) * (c.y.n - a.y.n) - (b.y.n - a.y.n) * (c.x.n - a.x.n)

\* the turn at every corner of the closed polygon, in list order
Turns(polygon) ==
    LET n == Len(polygon)
    IN  {CrossZ(polygon[i], polygon[(i % n) + 1], polygon[((i + 1) % n) + 1]) : i \in 1..n}

\* simple convex polygons of 3 and 4 corners with a corner at the origin, in either
\* winding direction, listed from that corner
ConvexPolygons ==
    {polygon \in UNION {{<<V3(0, 0, 0)>> \o rest : rest \in [1..n -> GridPoints]} : n \in {2, 3}} :
        /\ (\A t \in Turns(polygon) : t > 0) \/ (\A t \in Turns(polygon) : t < 0)}

NaNPoints == {Vector3(NaN, Num(1), Zero), Vector3(Num(1), NaN, Zero),
              Vector3(Zero, Zero, NaN)}
PointArgs == {Null, V3(0, 0, 0), V3(1, 1, 0)} \cup NaNPoints
ListArgs == {Null, List(<< >>), List(<<V3(1, 1, 0)>>), List(<<V3(0, 0, 0), V3(1, 0, 0)>>),
             List(<<V3(0, 0, 0), V3(0, MaxCoord, 0), V3(MaxCoord, 0, 0)>>),
             List(<<V3(0, 0, 0), V3(0, MaxCoord, 0), V3(MaxCoord, MaxCoord, 0),
                    V3(MaxCoord, 0, 0)>>)}

\* the square of side s from the origin, clockwise as in [(0,0),(0,s),(s,s),(s,0)]
ClockwiseSquare(s) == <<V2(0, 0), V2(0, s), V2(s, s), V2(s, 0)>>
CounterClockwiseSquare(s) == <<V2(0, 0), V2(s, 0), V2(s, s), V2(0, s)>>
ContourArgs ==
    {Null, List(<< >>), List(<<V2(1, 1)>>), List(<<V2(0, 0), V2(1, 0)>>)}
    \cup {List(ClockwiseSquare(s)) : s \in 1..MaxSide}
    \cup {List(CounterClockwiseSquare(s)) : s \in 1..MaxSide}
PaddingArgs == {Num(p) : p \in 1..MaxPadding}

\* open paths: straight, and with a doubled point where two sides meet
PathArgs ==
    {Null, List(<< >>), List(<<V3(1, 1, 0)>>), List(<<V3(0, 0, 0), V3(2, 0, 0)>>),
     List(<<V3(0, 0, 0), V3(0, 2, 0), V3(0, 4, 0)>>),
     List(<<V3(0, 0, 0), V3(2, 0, 0), V3(4, 0, 0), V3(4, 0, 0), V3(4, 2, 0)>>)}
    \cup {List(path) :
            path \in {p \in UNION {{<<V3(0, 0, 0)>> \o rest :
                                        rest \in [1..n -> {V3(x, y, 0) : x \in -1..1, y \in 0..1}]} :
                                    n \in 1..4} :
                         \* from the origin, no doubled point, and every normal along
                         \* the x or the y axis
                         /\ \A i \in 1..(Len(p) - 1) : p[i] # p[i + 1]
                         /\ \A i \in 1..Len(p) :
                               LET start == p[IF i = 1 THEN 1 ELSE i - 1]
                                   end == p[IF i = Len(p) THEN i ELSE i + 1]
                               IN  start.x = end.x \/ start.y = end.y}}

MovedPoints == {Null, List(<< >>), List(<<V3(1, 0, 0)>>), List(<<V3(1, 2, 0), V3(0, 1, 1)>>)}
AxisArgs == {Null, V3(0, 0, 0), V3(0, 0, 1), V3(0, 1, 0), V3(1, 0, 0), Vector3(Zero, NaN, Num(1)),
             V3(0, 0, 2), V3(1, 1, 0)}
ScaleArgs == {Null, V3(1, 1, 1), V3(2, 1, -1)}

\* the corners of the axis-aligned rectangle at (x, y) of width w and height h in
\* the z = 0 plane, counter-clockwise or clockwise, from corner start (0..3)
Rectangle(x, y, w, h, start, clockwise) ==
    LET ccw == <<V3(x, y, 0), V3(x + w, y, 0), V3(x + w, y + h, 0), V3(x, y + h, 0)>>
        corners == IF clockwise THEN <<ccw[1], ccw[4], ccw[3], ccw[2]>> ELSE ccw
    IN  [i \in 1..4 |-> corners[((i - 1 + start) % 4) + 1]]

\* the eight corners of the axis-aligned box with points[1] at (x, y, z): 0-3 the top
\* layer, 4-7 the bottom layer, 4,0,3,7 the right side and 5,1,2,6 the left side
BoxPoints(x, y, z, length, width, thickness) ==
    <<V3(x + length, y, z), V3(x, y, z), V3(x, y + width, z), V3(x + length, y + width, z),
      V3(x + length, y, z - thickness), V3(x, y, z - thickness),
      V3(x, y + width, z - thickness), V3(x + length, y + width, z - thickness)>>

\* simple polygons, convex or not, in either winding direction: every polygon of
\* 3 and 4 corners on a 3 x 3 grid, listed from its leftmost (then lowest)
\* corner, no three corners in a row on one line and no two sides crossing; and
\* pentagons with a reflex and with a straight corner and a hexagon with a reflex
\* corner
SimplePolygons ==
    LET grid == {V3(2 * x, 2 * y, 0) : x \in 0..2, y \in 0..2}
        crosses(a, b, c, d) ==
            /\ SignOf(CrossZ(a, b, c)) * SignOf(CrossZ(a, b, d)) < 0
            /\ SignOf(CrossZ(c, d, a)) * SignOf(CrossZ(c, d, b)) < 0
        after(a) == {p \in grid : a.x.n < p.x.n \/ (a.x.n = p.x.n /\ a.y.n < p.y.n)}
    IN  {polygon \in UNION {{<<a>> \o rest : rest \in [1..n -> after(a)]} :
                               a \in grid, n \in {2, 3}} :
            /\ 0 \notin Turns(polygon)
            /\ Len(polygon) = 4 =>
                   /\ ~crosses(polygon[1], polygon[2], polygon[3], polygon[4])
                   /\ ~crosses(polygon[2], polygon[3], polygon[4], polygon[1])}
        \cup {<<V3(0, 0, 0), V3(4, 0, 0), V3(4, 4, 0), V3(2, 2, 0), V3(0, 4, 0)>>,
              <<V3(0, 0, 0), V3(2, 0, 0), V3(4, 0, 0), V3(4, 4, 0), V3(0, 4, 0)>>,
              <<V3(0, 0, 0), V3(0, 4, 0), V3(2, 4, 0), V3(2, 2, 0), V3(4, 2, 0), V3(4, 0, 0)>>}

\* the points of a Shape2D: none, too few, and polygons whose sides are whole numbers long
ShapeArgs ==
    ContourArgs
    \cup {List(<<V2(0, 0), V2(1, 0), V2(2, 0)>>),
          List(<<V2(0, 0), V2(3, 0), V2(3, 4)>>),
          List(<<V2(1, 1), V2(1, 1), V2(1, 1)>>),
          List(<<V2(0, 0), V2(0, 1), V2(0, 2), V2(2, 2), V2(2, 0)>>),
          List(<<V2(0, 0), V2(0, 2), V2(1, 2), V2(1, 1), V2(2, 1), V2(2, 0)>>)}

Calls ==
    {[op |-> "contains", points |-> l, point |-> p] :
        l \in {Null} \cup {List(polygon) : polygon \in ConvexPolygons},
        p \in {Null} \cup TestPoints}
    \cup {[op |-> o, points |-> l, point |-> p] :
        o \in {"isInLine", "pointInPolygon", "isPointInsideShape2D"},
        l \in ListArgs, p \in PointArgs}
    \cup {[op |-> "pointInPolygon", points |-> List(polygon), point |-> V3(x, y, 0)] :
        polygon \in SimplePolygons, x \in {-1, 1, 3, 5}, y \in -1..5}
    \cup {[op |-> "isPointInsideShape2D", points |-> List(polygon), point |-> V3(x, y, 0)] :
        polygon \in {p \in SimplePolygons : Len(p) > 4}, x \in -1..5, y \in -1..5}
    \cup {[op |-> o, a |-> a, b |-> b] :
        o \in {"createVector3", "addVectors"}, a \in PointArgs, b \in PointArgs}
    \cup {[op |-> "getCentroid", points |-> l] :
        l \in ListArgs
            \cup {List(Rectangle(x, y, w, h, start, clockwise)) :
                     x \in -1..MaxOrigin, y \in -1..MaxOrigin, w \in 1..MaxExtent,
                     h \in 1..MaxExtent, start \in 0..3, clockwise \in BOOLEAN}
            \cup {List(<<V3(0, 0, 0), V3(1, 0, 0), V3(2, 0, 0)>>),
                  List(<<V3(1, 1, 0), V3(2, 2, 1), V3(3, 3, 2)>>),
                  List(<<V3(1, 1, 0), V3(3, 3, 0), V3(3, 1, 0), V3(1, 3, 0)>>)}
            \* polygons in the plane z = c
            \cup {List(<<V3(0, 0, c), V3(3, 0, c), V3(0, 3, c)>>) : c \in {1, 3}}
            \cup {List([i \in 1..4 |->
                          Vector3(Rectangle(0, 0, w, 1, start, clockwise)[i].x,
                                  Rectangle(0, 0, w, 1, start, clockwise)[i].y, Num(c))]) :
                     w \in 1..MaxExtent, start \in 0..3, clockwise \in BOOLEAN, c \in {1, 3}}}
    \cup {[op |-> "offsetContour", padding |-> p, points |-> l] :
        p \in PaddingArgs,
        l \in ContourArgs
            \cup {List(<<V2(0, 0), V2(1, 0), V2(2, 0)>>),
                  List(<<V2(0, 0), V2(0, 1), V2(0, 2), V2(2, 2), V2(2, 0)>>),
                  List(<<V2(0, 0), V2(0, 2), V2(1, 2), V2(1, 1), V2(2, 1), V2(2, 0)>>)}}
    \cup {[op |-> "completeContour", offset |-> p, points |-> l] :
        p \in PaddingArgs, l \in PathArgs}
    \cup {[op |-> "rotatePointsFromPoint", degree |-> d, points |-> l, pivot |-> p, axis |-> a] :
        d \in DegreeArgs \cup {Num(360)}, l \in MovedPoints, p \in PointArgs, a \in AxisArgs}
    \cup {[op |-> "scalePointsFromPoint", scale |-> s, points |-> l, pivot |-> p] :
        s \in ScaleArgs, l \in MovedPoints, p \in PointArgs}
    \cup {[op |-> "flipPointsHorizontallyFromPoint", points |-> l, pivot |-> p] :
        l \in MovedPoints, p \in PointArgs}
    \cup {[op |-> o, points |-> l, extrudeAmount |-> Num(e)] :
        o \in {"createExtrudeGeometry", "createExtrudedShape"},
        l \in ListArgs, e \in 0..1}
    \cup {[op |-> "equals", a |-> a, b |-> b, epsilon |-> e] :
        a \in {Null, V3(0, 0, 0)},
        b \in {Null, V3(0, 0, 0), V3(1, 0, 0), Vector3(Rat(1, 20), Zero, Zero),
               Vector3(Zero, Rat(1, 200), Zero), Vector3(Zero, Zero, Rat(1, 10))},
        e \in {Epsilon, Rat(1, 1000), Num(1)}}
    \cup {[op |-> "arrayEquals", a |-> a, b |-> b] :
        a \in {Null, List(<< >>), List(<<V3(0, 0, 0), V3(1, 1, 0)>>)},
        b \in {Null, List(<< >>), List(<<V3(0, 0, 0)>>), List(<<V3(0, 0, 0), V3(1, 1, 0)>>),
               List(<<Vector3(Rat(1, 20), Zero, Zero), V3(1, 1, 0)>>),
               List(<<Vector3(Zero, Rat(1, 200), Zero), V3(1, 1, 0)>>),
               List(<<V3(0, 0, 0), V3(1, 2, 0)>>)}}
    \cup {[op |-> op, current |-> c, next |-> n, previous |-> p] :
        op \in {"isPointInsideCorner", "isPointOutsideCorner"},
        c \in {Null} \cup {V3(2 * x, 2 * y, 0) : x \in 0..MaxCoord, y \in 0..1},
        n \in {Null} \cup {V3(2 * x, 2 * y, z) : x \in 0..MaxCoord, y \in 0..1, z \in 0..1},
        p \in {Null} \cup {V3(2 * x, 2 * y, 0) : x \in 0..MaxCoord, y \in 0..1}}
    \cup {[op |-> "createBoardMesh3D", points |-> l, diagonals |-> d] :
        l \in {Null, List(<<V3(0, 0, 0), V3(1, 0, 0), V3(1, 1, 0), V3(0, 1, 0)>>)}
              \cup {List(BoxPoints(x, y, z, length, width, thickness)) :
                      x \in {0, MaxOrigin}, y \in {0, MaxOrigin}, z \in {0, MaxOrigin},
                      length \in 1..MaxExtent, width \in 1..MaxExtent,
                      thickness \in 1..MaxExtent},
        d \in [1..3 -> BOOLEAN]}
    \cup {[op |-> "isInline", a |-> a, b |-> b, c |-> c] :
        a \in {Null, V3(0, 0, 0)},
        b \in {Null, V3(4, 0, 0), V3(0, 3, 1)},
        c \in {Null} \cup {V3(x, y, z) : x \in {0, 2, 4, 5}, y \in {0, 1, 3}, z \in 0..1}}
    \cup {[op |-> "fromValue", value |-> v] :
        v \in {ColorsConstants[i].value : i \in DOMAIN ColorsConstants}
              \cup {Null, NaN, Num(1), Num(16777214)}}
    \cup {[op |-> "findByValue", curve |-> v] :
        v \in {CurveConstants[i].value : i \in DOMAIN CurveConstants} \cup {"BEZIER", "line", ""}}
    \cup {[op |-> "Shape2D", points |-> l] : l \in ShapeArgs}
    \cup {[op |-> op, points |-> l, sideIndex |-> i] :
        op \in {"getSide", "getSideDistance"}, l \in ShapeArgs, i \in -2..7}

InitCalls ==
    /\ call \in Calls
    /\ ret = Null
    /\ pc = "ready"
    /\ geo = Null
    /\ geo0 = Null
    /\ last = NoCall
    /\ steps = 0

\* the call returns or throws
Finish(outcome) ==
    /\ pc = "ready"
    /\ ret' = outcome
    /\ pc' = "done"
    /\ UNCHANGED <<call, geo, geo0, last, steps>>

Contains == call.op = "contains" /\ Finish(contains(call.points, call.point))
IsInLine == call.op = "isInLine" /\ Finish(isInLine(call.points, call.point))
PointInPolygon == call.op = "pointInPolygon" /\ Finish(pointInPolygon(call.points, call.point))
IsPointInsideShape2D ==
    call.op = "isPointInsideShape2D" /\ Finish(isPointInsideShape2D(call.point, call.points))
CreateVector3 == call.op = "createVector3" /\ Finish(createVector3(call.a, call.b))
AddVectors == call.op = "addVectors" /\ Finish(addVectors(call.a, call.b))
GetCentroid == call.op = "getCentroid" /\ Finish(getCentroid(call.points))
OffsetContour == call.op = "offsetContour" /\ Finish(offsetContour(call.padding, call.points))
CompleteContour ==
    call.op = "completeContour" /\ Finish(completeContour(call.offset, call.points))
RotatePointsFromPoint ==
    /\ call.op = "rotatePointsFromPoint"
    /\ Finish(rotatePointsFromPoint(call.degree, call.points, call.pivot, call.axis))
ScalePointsFromPoint ==
    /\ call.op = "scalePointsFromPoint"
    /\ Finish(scalePointsFromPoint(call.scale, call.points, call.pivot))
FlipPointsHorizontallyFromPoint ==
    /\ call.op = "flipPointsHorizontallyFromPoint"
    /\ Finish(flipPointsHorizontallyFromPoint(call.points, call.pivot))
CreateExtrudeGeometry ==
    /\ call.op = "createExtrudeGeometry"
    /\ Finish(createExtrudeGeometry(call.points, call.extrudeAmount))
CreateExtrudedShape ==
    /\ call.op = "createExtrudedShape"
    /\ Finish(createExtrudedShape(call.points, call.extrudeAmount))

Equals == call.op = "equals" /\ Finish(equals(call.a, call.b, call.epsilon))
ArrayEquals == call.op = "arrayEquals" /\ Finish(arrayEquals(call.a, call.b))

IsPointInsideCorner ==
    /\ call.op = "isPointInsideCorner"
    /\ Finish(isPointInsideCorner(call.current, call.next, call.previous))

IsPointOutsideCorner ==
    /\ call.op = "isPointOutsideCorner"
    /\ Finish(isPointOutsideCorner(call.current, call.next, call.previous))

CreateBoardMesh3D ==
    /\ call.op = "createBoardMesh3D"
    /\ Finish(createBoardMesh3D(call.points, call.diagonals))

NewShape2D ==
    call.op = "Shape2D" /\ Finish(Shape2D(call.points))

\* a side asked of a shape that has just been constructed
GetSide ==
    /\ call.op = "getSide"
    /\ LET shape == Shape2D(call.points)
       IN  Finish(IF shape.threw THEN Throws ELSE Returned(getSide(shape.value, call.sideIndex)))

GetSideDistance ==
    /\ call.op = "getSideDistance"
    /\ LET shape == Shape2D(call.points)
       IN  Finish(IF shape.threw THEN Throws
                  ELSE Returned(getSideDistance(shape.value, call.sideIndex)))

IsInline ==
    call.op = "isInline" /\ Finish(isInline(call.a, call.b, call.c))

FromValue ==
    call.op = "fromValue" /\ Finish(fromValue(call.value))

FindByValue ==
    call.op = "findByValue" /\ Finish(findByValue(call.curve))

NextCalls ==
    \/ Contains
    \/ IsInLine
    \/ PointInPolygon
    \/ IsPointInsideShape2D
    \/ CreateVector3
    \/ AddVectors
    \/ GetCentroid
    \/ OffsetContour
    \/ CompleteContour
    \/ RotatePointsFromPoint
    \/ ScalePointsFromPoint
    \/ FlipPointsHorizontallyFromPoint
    \/ CreateExtrudeGeometry
    \/ CreateExtrudedShape
    \/ Equals
    \/ ArrayEquals
    \/ IsPointInsideCorner
    \/ IsPointOutsideCorner
    \/ CreateBoardMesh3D
    \/ NewShape2D
    \/ GetSide
    \/ GetSideDistance
    \/ IsInline
    \/ FromValue
    \/ FindByValue

SpecCalls == InitCalls /\ [][NextCalls]_vars

-----------------------------------------------------------------------------
(* Claims *)

\* the polygon and the point of a returned call of contains
C1_Called == pc = "done" /\ call.op = "contains" /\ ~IsNull(call.points) /\ ~IsNull(call.point)
\* where the point lies, by the side of every edge it is on
C1_Sides ==
    LET polygon == call.points.list
        n == Len(polygon)
    IN  {CrossZ(polygon[i], polygon[(i % n) + 1], call.point) : i \in 1..n}
C1_StrictlyInside == (\A t \in C1_Sides : t > 0) \/ (\A t \in C1_Sides : t < 0)
C1_StrictlyOutside ==
    \E t \in C1_Sides : \E w \in Turns(call.points.list) : (t > 0 /\ w < 0) \/ (t < 0 /\ w > 0)

C2_TwiceArea(polyline) ==
    SumNums([i \in 1..(Len(polyline) - 1) |->
                Sub(Mul(polyline[i].x, polyline[i + 1].y),
                    Mul(polyline[i + 1].x, polyline[i].y))])
C2_OutsideSquare(p, s) ==
    Lt(p.x, Zero) \/ Gt(p.x, Num(s)) \/ Lt(p.y, Zero) \/ Gt(p.y, Num(s))

\* C2: for the clockwise square [(0,0),(0,s),(s,s),(s,0)] (s = 10 in the scenario)
\* and a positive padding, offsetContour returns a closed polyline that encloses
\* more than the square's area s * s, every corner of it outside the square.
C2_OffsetInflatesClockwiseSquare ==
    \A s \in 1..MaxSide :
        (pc = "done" /\ call.op = "offsetContour" /\ call.points = List(ClockwiseSquare(s))) =>
            /\ ~ret.threw
            /\ LET area == C2_TwiceArea(ret.value.list)
               IN  Gt(area, Num(2 * s * s)) \/ Lt(area, Num(-2 * s * s))
            /\ \A i \in 1..4 : C2_OutsideSquare(ret.value.list[i], s)

\* C3: after rotateUVsByDegree(mesh, d) returned, every face-corner UV of the mesh
\* (all three of every face) is its value before the call rotated by d degrees
\* about the UV origin.
C3_RotatesEveryUv ==
    (last.op = "rotateUVsByDegree" /\ ~last.threw) =>
        \A i \in 1..NumUvEntries(geo) : \A k \in 1..3 :
            UvSet(geo)[i][k] = RotateZ(UvSet(last.before)[i][k], last.arg.n)

\* C4: on a geometry constructed with one 3-corner UV entry per face, whatever
\* calls were made, the number of faces and the number of UV entries are what they
\* were, equal to each other, and every UV entry has 3 corners.
C4_CountsPreserved ==
    WellFormed(geo0) =>
        /\ WellFormed(geo)
        /\ Len(geo.faces) = Len(geo0.faces)
        /\ Len(UvSet(geo)) = Len(UvSet(geo0))
        /\ geo.vertices = geo0.vertices

C4_Witness ==
    /\ WellFormed(geo0)
    /\ steps = 2
    /\ last.op = "assignUVsToPlanar"
    /\ last.before # geo0
    /\ geo # last.before

\* C5: flipFaceNormalOnGeo swaps the first and third vertex index of every face and
\* the first and third UV corner of every UV entry and leaves the second of each;
\* applied once more it restores the index order and the UV corner order.
C5_FlipSwapsAndInvolutes ==
    (last.op = "flipFaceNormalOnGeo" /\ ~last.threw) =>
        /\ Len(geo.faces) = Len(last.before.faces)
        /\ \A f \in 1..Len(geo.faces) :
              /\ geo.faces[f].a = last.before.faces[f].c
              /\ geo.faces[f].b = last.before.faces[f].b
              /\ geo.faces[f].c = last.before.faces[f].a
        /\ Len(UvSet(geo)) = Len(UvSet(last.before))
        /\ \A i \in 1..Len(UvSet(geo)) :
              /\ UvSet(geo)[i][1] = UvSet(last.before)[i][3]
              /\ UvSet(geo)[i][2] = UvSet(last.before)[i][2]
              /\ UvSet(geo)[i][3] = UvSet(last.before)[i][1]
        /\ flipFaceNormalOnGeo(geo) = Returned(last.before)

C5_Witness ==
    /\ last.op = "flipFaceNormalOnGeo"
    /\ ~last.threw
    /\ Len(geo.faces) = 2
    /\ WellFormed(geo)
    /\ \A i \in 1..2 : UvSet(geo)[i][1] # UvSet(geo)[i][3]
    /\ \A i \in 1..2 : UvSet(geo)[i][1] # UvSet(geo)[i][2]

\* C6: getCentroid and offsetContour called with a list of fewer than 3 points, and
\* completeContour called with a list of fewer than 2 points, throw.
C6_ShortListsThrow ==
    (/\ pc = "done"
     /\ call.op \in {"getCentroid", "offsetContour", "completeContour"}
     /\ ~IsNull(call.points)
     /\ Len(call.points.list) < (IF call.op = "completeContour" THEN 2 ELSE 3))
        => ret.threw

\* C7: a UvUtils call on a null geometry, or on one whose first UV set is missing,
\* empty or shorter than the face list, throws and leaves the geometry as it was.
C7_Ops ==
    {"setUvRotationOnGeometry", "rotateUVsByDegree", "matchUVsWithGeometryVertices",
     "flipFaceNormalOnGeo", "planeProjectionOnGeometry", "getGeometryUVs"}
C7_Invalid(g) ==
    \/ IsNull(g)
    \/ ~HasUvSet(g)
    \/ Len(UvSet(g)) < Len(g.faces)
C7_InvalidGeometryFailsAtomically ==
    (last.op \in C7_Ops /\ C7_Invalid(last.before)) =>
        (last.threw /\ geo = last.before)

\* C8: pointInPolygon and isPointInsideShape2D never throw; pointInPolygon returns
\* false for a null list or point, isPointInsideShape2D returns false for a null
\* point or list, a list of fewer than 3 points, or a point with a NaN x or y;
\* contains, isInLine, getCentroid, createVector3 and addVectors throw on null.
C8_PredicatesReturnFalseOthersThrow ==
    pc = "done" =>
        /\ call.op \in {"pointInPolygon", "isPointInsideShape2D"} => ~ret.threw
        /\ (call.op = "pointInPolygon" /\ (IsNull(call.points) \/ IsNull(call.point)))
              => ret.value = FALSE
        /\ (/\ call.op = "isPointInsideShape2D"
            /\ \/ IsNull(call.point)
               \/ IsNull(call.points)
               \/ Len(call.points.list) < 3
               \/ IsNaN(call.point.x)
               \/ IsNaN(call.point.y))
              => ret.value = FALSE
        /\ (call.op \in {"contains", "isInLine"} /\ (IsNull(call.points) \/ IsNull(call.point)))
              => ret.threw
        /\ (call.op = "getCentroid" /\ IsNull(call.points)) => ret.threw
        /\ (call.op \in {"createVector3", "addVectors"} /\ (IsNull(call.a) \/ IsNull(call.b)))
              => ret.threw

C8_Witness ==
    /\ pc = "done"
    /\ call.op = "pointInPolygon"
    /\ IsNull(call.points)
    /\ ~IsNull(call.point)
    /\ ~ret.threw
    /\ ret.value = FALSE

\* what rotatePointsFromPoint, scalePointsFromPoint and
\* flipPointsHorizontallyFromPoint are to reject
C9_Ops == {"rotatePointsFromPoint", "scalePointsFromPoint", "flipPointsHorizontallyFromPoint"}
C9_Rejected ==
    \/ IsNull(call.points)
    \/ Len(call.points.list) = 0
    \/ IsNull(call.pivot)
    \/ IsNaN(call.pivot.x) \/ IsNaN(call.pivot.y) \/ IsNaN(call.pivot.z)
    \/ /\ call.op = "rotatePointsFromPoint"
       /\ (IsNull(call.axis) \/ call.axis = V3(0, 0, 0))

\* C9: the three functions throw when the list is null or empty or the pivot is
\* null or has a NaN component, and rotatePointsFromPoint also when the axis is
\* null or of zero length; when one of them throws, the list is as it was.
C9_TransformsValidateBeforeMoving ==
    (pc = "done" /\ call.op \in C9_Ops) =>
        /\ C9_Rejected => ret.threw
        /\ ret.threw => ret.value = call.points

C9_Witness ==
    /\ pc = "done"
    /\ call.op = "rotatePointsFromPoint"
    /\ call.degree = Num(90)
    /\ ~IsNull(call.points)
    /\ Len(call.points.list) = 2
    /\ call.pivot = V3(1, 1, 0)
    /\ call.axis = V3(0, 0, 0)
    /\ ret.threw
    /\ ret.value = call.points

\* C10: createExtrudeGeometry and createExtrudedShape throw when points is null or
\* empty.
C10_ExtrusionRejectsNoPoints ==
    (/\ pc = "done"
     /\ call.op \in {"createExtrudeGeometry", "createExtrudedShape"}
     /\ (IsNull(call.points) \/ Len(call.points.list) = 0))
        => ret.threw

\* C11: equals(a, b, epsilon) returns true exactly when the squared distance between
\* a and b is at most epsilon squared (epsilon .01 unless given); arrayEquals of two
\* lists of equal length is that test, index by index.
C11_EqualsComparesWithEpsilonSquared ==
    pc = "done" =>
        /\ (call.op = "equals" /\ ~IsNull(call.a) /\ ~IsNull(call.b)) =>
              /\ ~ret.threw
              /\ ret.value = Le(DistSq(call.a, call.b), Mul(call.epsilon, call.epsilon))
        /\ (/\ call.op = "arrayEquals" /\ ~IsNull(call.a) /\ ~IsNull(call.b)
            /\ Len(call.a.list) = Len(call.b.list)) =>
              /\ ~ret.threw
              /\ ret.value = \A i \in 1..Len(call.a.list) :
                     Le(DistSq(call.a.list[i], call.b.list[i]), Mul(Epsilon, Epsilon))

\* C12: getCentroid of the unit square [(0,0),(1,0),(1,1),(0,1)] is (0.5, 0.5, 0), and
\* of every axis-aligned rectangle in the z = 0 plane, in either winding direction
\* and from any corner, it is the rectangle's centre.
C12_CentroidOfRectangleIsCentre ==
    (pc = "done" /\ call.op = "getCentroid") =>
        \A x \in -1..MaxOrigin, y \in -1..MaxOrigin, w \in 1..MaxExtent, h \in 1..MaxExtent,
           start \in 0..3, clockwise \in BOOLEAN :
            call.points = List(Rectangle(x, y, w, h, start, clockwise)) =>
                /\ ~ret.threw
                /\ ret.value = Vector3(Rat(2 * x + w, 2), Rat(2 * y + h, 2), Zero)

C12_Witness ==
    /\ pc = "done"
    /\ call.op = "getCentroid"
    /\ call.points = List(<<V3(0, 0, 0), V3(1, 0, 0), V3(1, 1, 0), V3(0, 1, 0)>>)
    /\ ret = Returned(Vector3(Rat(1, 2), Rat(1, 2), Zero))

\* C13: getCentroid throws for a null or empty list; for a non-empty list of signed
\* area zero it returns, without throwing, a point none of whose coordinates is a
\* finite number; and the call leaves its argument as it was.
C13_State ==
    (pc = "done" /\ call.op = "getCentroid") =>
        /\ (IsNull(call.points) \/ Len(call.points.list) = 0) => ret.threw
        /\ (/\ ~IsNull(call.points)
            /\ Len(call.points.list) > 0
            /\ C2_TwiceArea(Append(call.points.list, call.points.list[1])) = Zero) =>
              /\ ~ret.threw
              /\ ~IsFinite(ret.value.x)
              /\ ~IsFinite(ret.value.y)
              /\ ~IsFinite(ret.value.z)
C13_CentroidOfZeroAreaIsNotFinite == [](C13_State) /\ [][GetCentroid => call' = call]_vars

C13_Witness ==
    /\ pc = "done"
    /\ call.op = "getCentroid"
    /\ call.points = List(<<V3(1, 1, 0), V3(3, 3, 0), V3(3, 1, 0), V3(1, 3, 0)>>)
    /\ ~ret.threw
    /\ ~IsFinite(ret.value.x)

\* the cross product (current - next) x (current - previous), for points with whole
\* coordinates
C14_Cross(current, next, previous) ==
    LET vx == current.x.n - next.x.n
        vy == current.y.n - next.y.n
        vz == current.z.n - next.z.n
        ux == current.x.n - previous.x.n
        uy == current.y.n - previous.y.n
        uz == current.z.n - previous.z.n
    IN  <<vy * uz - vz * uy, vz * ux - vx * uz, vx * uy - vy * ux>>
\* <<previous, current, next>> at every vertex of every triangle and every rectangle
\* of the grid listed clockwise
C14_ClockwiseCorners ==
    UNION {{<<polygon[((i + Len(polygon) - 2) % Len(polygon)) + 1], polygon[i],
              polygon[(i % Len(polygon)) + 1]>> : i \in DOMAIN polygon} :
           polygon \in {q \in [1..3 -> GridPoints] : \A t \in Turns(q) : t < 0}
                       \cup {Rectangle(0, 0, 2 * w, 2 * h, start, TRUE) :
                               w \in 1..MaxCoord, h \in 1..MaxCoord, start \in 0..3}}
C14_Called ==
    /\ pc = "done"
    /\ call.op \in {"isPointInsideCorner", "isPointOutsideCorner"}
    /\ ~IsNull(call.current) /\ ~IsNull(call.next) /\ ~IsNull(call.previous)

\* C14: for three non-null points, isPointInsideCorner and isPointOutsideCorner both
\* return false when previous, current and next are collinear; otherwise exactly one
\* of them returns true, by the sign of the z of (current - next) x (current - previous);
\* every vertex of a convex polygon listed clockwise is an outside corner.
C14_CornersClassifiedBySign ==
    C14_Called =>
        LET cross == C14_Cross(call.current, call.next, call.previous)
            inside == IF call.op = "isPointInsideCorner" THEN ret.value
                      ELSE isPointInsideCorner(call.current, call.next, call.previous).value
            outside == IF call.op = "isPointOutsideCorner" THEN ret.value
                       ELSE isPointOutsideCorner(call.current, call.next, call.previous).value
        IN  /\ ~ret.threw
            /\ cross = <<0, 0, 0>> => ~inside /\ ~outside
            /\ cross # <<0, 0, 0>> =>
                  /\ inside # outside
                  /\ cross[3] > 0 => inside
                  /\ cross[3] < 0 => outside
            /\ <<call.previous, call.current, call.next>> \in C14_ClockwiseCorners =>
                  outside /\ ~inside

C14_Witness ==
    /\ C14_Called
    /\ call.op = "isPointOutsideCorner"
    /\ call.previous = V3(0, 0, 0) /\ call.current = V3(0, 2, 0) /\ call.next = V3(2, 2, 0)
    /\ <<call.previous, call.current, call.next>> \in C14_ClockwiseCorners
    /\ ret = Returned(TRUE)

\* a createBoardMesh3D call on the eight corners of a box has returned
C15_Called ==
    /\ pc = "done"
    /\ call.op = "createBoardMesh3D"
    /\ ~IsNull(call.points)
    /\ Len(call.points.list) = 8
\* the smallest and the largest value of coordinate c over the points
C15_Low(points, c) ==
    CHOOSE m \in {points[i][c].n : i \in DOMAIN points} :
        \A i \in DOMAIN points : m <= points[i][c].n
C15_High(points, c) ==
    CHOOSE m \in {points[i][c].n : i \in DOMAIN points} :
        \A i \in DOMAIN points : m >= points[i][c].n
\* the normal (b - a) x (c - a) of the face, as Geometry.computeFaceNormals has it up
\* to length, for vertices with whole coordinates
C15_Normal(g, face) ==
    LET a == Vertex(g, face.a)
        b == Vertex(g, face.b)
        c == Vertex(g, face.c)
        ux == b.x.n - a.x.n
        uy == b.y.n - a.y.n
        uz == b.z.n - a.z.n
        vx == c.x.n - a.x.n
        vy == c.y.n - a.y.n
        vz == c.z.n - a.z.n
    IN  [x |-> uy * vz - uz * vy, y |-> uz * vx - ux * vz, z |-> ux * vy - uy * vx]
\* the face lies in the side of the geometry's box where coordinate c is lowest
\* (outward -1) or highest (outward 1), and its normal points along c that way
C15_FacesOut(g, face, c, outward) ==
    LET side == IF outward = 1 THEN C15_High(g.vertices, c) ELSE C15_Low(g.vertices, c)
        normal == C15_Normal(g, face)
    IN  /\ \A i \in {face.a, face.b, face.c} : Vertex(g, i)[c].n = side
        /\ normal[c] * outward > 0
        /\ \A o \in {"x", "y", "z"} \ {c} : normal[o] = 0

\* C15: in the mesh createBoardMesh3D builds, with the normals of sidePlane4 and
\* endPlane2 (and no others) flipped, each of the six sides of the box carries
\* faces, and every face's normal points away from the inside of the box.
C15_AllFacesOutward ==
    C15_Called =>
        LET g == ret.value.geometry
        IN  /\ ~ret.threw
            /\ \A f \in DOMAIN g.faces :
                   \E c \in {"x", "y", "z"}, outward \in {-1, 1} :
                       C15_FacesOut(g, g.faces[f], c, outward)
            /\ \A c \in {"x", "y", "z"}, outward \in {-1, 1} :
                   \E f \in DOMAIN g.faces : C15_FacesOut(g, g.faces[f], c, outward)

C15_Witness ==
    /\ C15_Called
    /\ ~ret.threw
    /\ Len(ret.value.geometry.faces) = 12
    /\ \E f \in DOMAIN ret.value.geometry.faces :
           C15_FacesOut(ret.value.geometry, ret.value.geometry.faces[f], "y", -1)

\* C16 as stated: for the 8 points of an axis-aligned box in the index convention,
\* createBoardMesh3D returns a mesh of at most 24 vertices whose bounding box equals
\* the bounding box of the 8 points.
C16_BoundingBoxIsTheInputs ==
    C15_Called =>
        /\ ~ret.threw
        /\ Len(ret.value.geometry.vertices) <= 24
        /\ \A c \in {"x", "y", "z"} :
              /\ C15_Low(ret.value.geometry.vertices, c) = C15_Low(call.points.list, c)
              /\ C15_High(ret.value.geometry.vertices, c) = C15_High(call.points.list, c)

\* C16: for the 8 points of an axis-aligned box in the index convention,
\* createBoardMesh3D returns a mesh of at most 24 vertices whose bounding box runs
\* from (0, 0, -thickness) to (length, width, 0), the distances from point 0 to 1,
\* 1 to 2 and 0 to 4: the size of the input box, placed at the origin.
C16_BoundingBoxHasTheInputsSize ==
    C15_Called =>
        LET g == ret.value.geometry
            p == call.points.list
        IN  /\ ~ret.threw
            /\ Len(g.vertices) <= 24
            /\ C15_Low(g.vertices, "x") = 0
            /\ C15_High(g.vertices, "x") = distanceTo(p[1], p[2]).n
            /\ C15_Low(g.vertices, "y") = 0
            /\ C15_High(g.vertices, "y") = distanceTo(p[2], p[3]).n
            /\ C15_Low(g.vertices, "z") = -distanceTo(p[1], p[5]).n
            /\ C15_High(g.vertices, "z") = 0
            /\ \A c \in {"x", "y", "z"} :
                  C15_High(g.vertices, c) - C15_Low(g.vertices, c)
                      = C15_High(p, c) - C15_Low(p, c)

C16_Witness ==
    /\ C15_Called
    /\ call.points = List(BoxPoints(0, 0, MaxOrigin, 1, 1, 1))
    /\ ~ret.threw
    /\ Len(ret.value.geometry.vertices) = 8
    /\ C15_Low(ret.value.geometry.vertices, "z") = -1
    /\ C15_Low(call.points.list, "z") = MaxOrigin - 1

\* a setUvRotationOnGeometry call has returned
C17_Called ==
    /\ pc = "uv"
    /\ last.op = "setUvRotationOnGeometry"
    /\ ~last.threw
\* (x, y) of the vertex turned about Z by -degree, degree a multiple of 90
C17_Turned(v, degree) ==
    CASE degree = Num(0) -> Vector2(v.x, v.y)
      [] degree = Num(90) -> Vector2(v.y, Neg(v.x))
      [] degree = Num(180) -> Vector2(Neg(v.x), Neg(v.y))
      [] degree = Num(270) -> Vector2(Neg(v.y), v.x)
\* the geometry with every UV of its first set replaced by uv
C17_WithEveryUv(g, uv) ==
    WithUvSet(g, [f \in 1..NumUvEntries(g) |-> <<uv, uv, uv>>])

\* C17: setUvRotationOnGeometry(degree, geo) sets every face corner's UV to the
\* (x, y) of that corner's vertex turned about Z by -degree; geo's vertices and
\* faces stay as they were; the result is the same whatever the UVs were before;
\* and for degree 0 the UVs are those matchUVsWithGeometryVertices produces.
C17_UvsAreTurnedVertices ==
    C17_Called =>
        /\ geo.vertices = last.before.vertices
        /\ geo.faces = last.before.faces
        /\ NumUvEntries(geo) = Len(geo.faces)
        /\ \A f \in 1..Len(geo.faces) :
              UvSet(geo)[f] = <<C17_Turned(Vertex(geo, geo.faces[f].a), last.arg),
                                C17_Turned(Vertex(geo, geo.faces[f].b), last.arg),
                                C17_Turned(Vertex(geo, geo.faces[f].c), last.arg)>>
        /\ \A uv \in {V2(0, 0), V2(MaxExtent, 1)} :
              setUvRotationOnGeometry(last.arg, C17_WithEveryUv(last.before, uv)).value = geo
        /\ last.arg = Num(0) =>
              /\ ~matchUVsWithGeometryVertices(last.before).threw
              /\ matchUVsWithGeometryVertices(last.before).value = geo

C17_Witness ==
    /\ C17_Called
    /\ last.arg = Num(90)
    /\ steps = MaxSteps
    /\ UvSet(geo) # UvSet(last.before)
    /\ HasUvSet(geo0)
    /\ UvSet(last.before) # UvSet(geo0)

\* (x, y) of the vertex as a fraction of the geometry's XY bounding box
C18_Normalized(g, v) ==
    Vector2(Div(Sub(v.x, BoxMin(g).x), Sub(BoxMax(g).x, BoxMin(g).x)),
            Div(Sub(v.y, BoxMin(g).y), Sub(BoxMax(g).y, BoxMin(g).y)))

\* C18: after planeProjectionOnGeometry on a geometry whose XY bounding box has a
\* width and a height, every UV is its vertex's (x, y) normalized by the bounding
\* box and so lies in [0, 1], whatever the UVs were before and wherever the box lies.
C18_UvsAreNormalizedVertices ==
    (/\ pc = "uv"
     /\ last.op = "planeProjectionOnGeometry"
     /\ ~last.threw
     /\ BoxMax(geo).x # BoxMin(geo).x
     /\ BoxMax(geo).y # BoxMin(geo).y) =>
        \A f \in 1..Len(geo.faces) :
            /\ UvSet(geo)[f] = <<C18_Normalized(geo, Vertex(geo, geo.faces[f].a)),
                                 C18_Normalized(geo, Vertex(geo, geo.faces[f].b)),
                                 C18_Normalized(geo, Vertex(geo, geo.faces[f].c))>>
            /\ \A k \in 1..3 :
                  /\ Le(Zero, UvSet(geo)[f][k].x) /\ Le(UvSet(geo)[f][k].x, Num(1))
                  /\ Le(Zero, UvSet(geo)[f][k].y) /\ Le(UvSet(geo)[f][k].y, Num(1))

\* the geometry's k-th UV, counting the corners of the first set entry by entry
C19_Corner(g, k) == UvSet(g)[((k - 1) \div 3) + 1][((k - 1) % 3) + 1]

\* C19: getGeometryUVs returns the UVs as a flat list, 3 per face in face order; a
\* change of an entry of the list returned with getClones = true leaves the
\* geometry's UVs alone, and a change of entry k of the list returned with
\* getClones = false changes the geometry's k-th UV and no other.
C19_ReturnedUvsAliasUnlessCloned ==
    /\ (pc = "uv" /\ last.op = "getGeometryUVs" /\ ~last.threw) =>
          /\ geo = last.before
          /\ Len(ret.list) = 3 * NumUvEntries(geo)
          /\ WellFormed(geo) => Len(ret.list) = 3 * Len(geo.faces)
          /\ \A k \in 1..Len(ret.list) : ret.list[k].uv = C19_Corner(geo, k)
    /\ (pc = "uv" /\ last.op = "setReturnedUv") =>
          /\ ret.list[last.arg.k].uv = last.arg.uv
          /\ geo.vertices = last.before.vertices
          /\ geo.faces = last.before.faces
          /\ ret.getClones => geo = last.before
          /\ ~ret.getClones =>
                \A k \in 1..(3 * NumUvEntries(geo)) :
                    C19_Corner(geo, k) = IF k = last.arg.k THEN last.arg.uv
                                         ELSE C19_Corner(last.before, k)

C19_Witness ==
    /\ pc = "uv"
    /\ last.op = "setReturnedUv"
    /\ ~ret.getClones
    /\ last.arg.k = 5
    /\ C19_Corner(geo, 5) = last.arg.uv
    /\ C19_Corner(last.before, 5) # last.arg.uv

\* an offsetContour call on a contour of 3 or more points is over
C20_Called ==
    /\ pc = "done"
    /\ call.op = "offsetContour"
    /\ ~IsNull(call.points)
    /\ Len(call.points.list) >= 3
\* C20 in the states: the call returns n + 1 points that end with a copy of the
\* first; for a square, point i is the mitre point of vertex i, at sqrt(2) * padding
\* from it
C20_State ==
    C20_Called =>
        LET n == Len(call.points.list)
            points == ret.value.list
            fromVertex(i) ==
                Add(Mul(Sub(points[i].x, call.points.list[i].x),
                        Sub(points[i].x, call.points.list[i].x)),
                    Mul(Sub(points[i].y, call.points.list[i].y),
                        Sub(points[i].y, call.points.list[i].y)))
        IN  /\ ~ret.threw
            /\ Len(points) = n + 1
            /\ points[n + 1] = points[1]
            /\ (\E s \in 1..MaxSide : call.points.list \in {ClockwiseSquare(s),
                                                            CounterClockwiseSquare(s)}) =>
                  \A i \in 1..n : fromVertex(i) = Mul(Num(2), Mul(call.padding, call.padding))

\* C20: for every contour of n >= 3 points offsetContour returns exactly n + 1
\* points, one offset point per vertex in the order of the vertices and then a copy
\* of the first offset point, and it leaves the contour it was given as it was.
C20_OffsetReturnsClosedListOfNPlusOne ==
    [](C20_State) /\ [][OffsetContour => call' = call]_vars

C20_Witness ==
    /\ C20_Called
    /\ Len(call.points.list) = 6
    /\ ~ret.threw
    /\ Len(ret.value.list) = 7
    /\ ret.value.list[7] = ret.value.list[1]

\* C21: a completeContour call on an open path of at least 2 points, none equal to
\* the next one even under the 0.001 tolerance test (so that none coincides with
\* the next one), with an offset of at least 1
C21_Called ==
    /\ pc = "done" /\ call.op = "completeContour"
    /\ ~IsNull(call.points)
    /\ Len(call.points.list) >= 2
    /\ \A i \in 1..(Len(call.points.list) - 1) :
           ~equals(call.points.list[i], call.points.list[i + 1], Rat(1, 1000)).value
    /\ Ge(call.offset, Num(1))

\* C21: the normal of point i of a path whose directions lie along the axes: the
\* direction between its neighbours (at an end, between the end and its one
\* neighbour) turned 90 degrees counter-clockwise about Z, of length 1
C21_Normal(points, i) ==
    LET start == points[IF i = 1 THEN 1 ELSE i - 1]
        end == points[IF i = Len(points) THEN i ELSE i + 1]
    IN  Vector3(Num(-SignOf(Sub(end.y, start.y).n)), Num(SignOf(Sub(end.x, start.x).n)), Zero)

\* C21: the path points in their order, then, in reverse path order, each path
\* point displaced by offset along its normal
C21_Ribbon(offset, points) ==
    LET n == Len(points)
        displaced(i) == Vector3(Add(points[i].x, Mul(offset, C21_Normal(points, i).x)),
                                Add(points[i].y, Mul(offset, C21_Normal(points, i).y)),
                                points[i].z)
    IN  points \o [k \in 1..n |-> displaced(n + 1 - k)]

\* C21: the first k points of a list, less every point that is equal under the
\* 0.001 tolerance test to the point kept before it
RECURSIVE C21_Kept(_, _)
C21_Kept(list, k) ==
    IF k = 0 THEN << >>
    ELSE LET kept == C21_Kept(list, k - 1)
         IN  IF kept # << >> /\ equals(list[k], kept[Len(kept)], Rat(1, 1000)).value
             THEN kept
             ELSE Append(kept, list[k])

\* C21: no two consecutive points of a list are equal under the 0.001 tolerance test
C21_NoRepeats(list) ==
    \A i \in 1..(Len(list) - 1) : ~equals(list[i], list[i + 1], Rat(1, 1000)).value

\* C21 as stated: for an open path of n >= 2 points in which no two consecutive
\* points coincide and an offset of at least 1, completeContour returns the path
\* points in order followed, in reverse path order, by each path point displaced by
\* offset along its normal; and no two consecutive points of any result are equal
\* under the 0.001 tolerance test.
C21_ContourIsPathThenDisplacedPath ==
    /\ C21_Called =>
           /\ ~ret.threw
           /\ ret.value = List(C21_Ribbon(call.offset, call.points.list))
    /\ (pc = "done" /\ call.op = "completeContour" /\ ~ret.threw) =>
           C21_NoRepeats(ret.value.list)

\* C21 as the code has it: for a path of n >= 2 points in which no two consecutive
\* points are equal under the test and an offset of at least 1, completeContour returns that
\* list of 2n points less every point equal under the 0.001 tolerance test to the
\* point kept before it, so it returns the 2n points exactly when no two
\* consecutive points of that list are equal under the test; and no two
\* consecutive points of any result are equal under the test.
C21_ContourIsRibbonLessRepeats ==
    /\ C21_Called =>
           LET ribbon == C21_Ribbon(call.offset, call.points.list)
           IN  /\ ~ret.threw
               /\ ret.value = List(C21_Kept(ribbon, Len(ribbon)))
               /\ C21_NoRepeats(ribbon) <=> ret.value = List(ribbon)
    /\ (pc = "done" /\ call.op = "completeContour" /\ ~ret.threw) =>
           C21_NoRepeats(ret.value.list)

\* C21 witness: the zig-zag (0,0), (1,0), (0,1), (-1,0), (-1,1) with offset 1, where
\* the displaced second and third points are both (0,0): 9 points are returned
C21_Witness ==
    /\ C21_Called
    /\ call.offset = Num(1)
    /\ call.points = List(<<V3(0, 0, 0), V3(1, 0, 0), V3(0, 1, 0), V3(-1, 0, 0), V3(-1, 1, 0)>>)
    /\ ret = Returned(List(<<V3(0, 0, 0), V3(1, 0, 0), V3(0, 1, 0), V3(-1, 0, 0), V3(-1, 1, 0),
                            V3(-2, 1, 0), V3(-1, -1, 0), V3(0, 0, 0), V3(0, 1, 0)>>))

\* C22: a call that constructs a Shape2D
C22_Called == pc = "done" /\ call.op \in {"Shape2D", "getSide", "getSideDistance"}

\* C22: point i (counted from 0) of the call's points, as the Vector3 a side holds
C22_Point(i) ==
    Vector3(call.points.list[i + 1].x, call.points.list[i + 1].y, Zero)

\* C22: constructing a Shape2D with null points or fewer than 3 points throws;
\* otherwise the shape has as many sides as points, side i runs from point i to point
\* (i + 1) mod n, so the end of every side is the start of the next one cyclically;
\* getSide with an index outside 0..n-1 returns null (inside, side i) and
\* getSideDistance returns 0 for it.
C22_SidesFollowThePoints ==
    C22_Called =>
        IF IsNull(call.points) \/ Len(call.points.list) < 3 THEN ret.threw
        ELSE LET n == Len(call.points.list)
                 side(i) == Line3(C22_Point(i), C22_Point((i + 1) % n))
             IN  /\ ~ret.threw
                 /\ call.op = "Shape2D" =>
                        /\ Len(ret.value.sides) = n
                        /\ \A i \in 0..(n - 1) :
                               /\ ret.value.sides[i + 1] = side(i)
                               /\ ret.value.sides[i + 1].end = ret.value.sides[((i + 1) % n) + 1].start
                 /\ call.op = "getSide" =>
                        ret.value = IF call.sideIndex \in 0..(n - 1) THEN side(call.sideIndex)
                                    ELSE Null
                 /\ (call.op = "getSideDistance" /\ call.sideIndex \notin 0..(n - 1)) =>
                        ret.value = Zero

\* C22 witness: the last side of the triangle (0,0), (3,0), (3,4) runs from (3,4)
\* back to (0,0)
C22_Witness ==
    /\ C22_Called /\ call.op = "getSide"
    /\ call.points = List(<<V2(0, 0), V2(3, 0), V2(3, 4)>>)
    /\ call.sideIndex = 2
    /\ ret = Returned(Line3(V3(3, 4, 0), V3(0, 0, 0)))

\* C23: a rotatePointsFromPoint call by 360 degrees, or a scalePointsFromPoint call
\* with scale (1, 1, 1), whose list, pivot and axis are accepted
C23_Called ==
    /\ pc = "done"
    /\ \/ call.op = "rotatePointsFromPoint" /\ call.degree = Num(360)
          /\ ~IsNull(call.axis) /\ hasDistanceOrDirection(call.axis)
       \/ call.op = "scalePointsFromPoint" /\ call.scale = V3(1, 1, 1)
    /\ ~IsNull(call.points) /\ Len(call.points.list) > 0
    /\ ~IsNull(call.pivot) /\ isAllValuesNumbers(call.pivot)

\* C23: two points are less than epsilon = 0.01 apart
C23_Within(a, b) == Le(DistSq(a, b), Mul(Epsilon, Epsilon))

\* C23: rotatePointsFromPoint by 360 degrees about any accepted axis and pivot, and
\* scalePointsFromPoint with scale (1, 1, 1) about any pivot, return and leave every
\* point of the list where it was, within epsilon 0.01.
C23_IdentityParametersMoveNothing ==
    C23_Called =>
        /\ ~ret.threw
        /\ Len(ret.value.list) = Len(call.points.list)
        /\ \A i \in 1..Len(call.points.list) :
               C23_Within(ret.value.list[i], call.points.list[i])

\* C23 witness: (1,2,0), (0,1,1) turned by 360 degrees about the axis (1,1,0)
\* through (1,1,0)
C23_Witness ==
    /\ C23_Called
    /\ call.op = "rotatePointsFromPoint"
    /\ call.axis = V3(1, 1, 0)
    /\ call.pivot = V3(1, 1, 0)
    /\ ret = Returned(List(<<V3(1, 2, 0), V3(0, 1, 1)>>))

\* C24: a flipPointsHorizontallyFromPoint call whose list and pivot are accepted
C24_Called ==
    /\ pc = "done" /\ call.op = "flipPointsHorizontallyFromPoint"
    /\ ~IsNull(call.points) /\ Len(call.points.list) > 0
    /\ ~IsNull(call.pivot) /\ isAllValuesNumbers(call.pivot)

\* C24: flipPointsHorizontallyFromPoint leaves every point's y as it was and mirrors
\* its x about the pivot's x, and applied a second time with the same pivot it
\* returns every point to its original coordinates (within epsilon).
C24_FlipMirrorsXAndInvolutes ==
    C24_Called =>
        /\ ~ret.threw
        /\ Len(ret.value.list) = Len(call.points.list)
        /\ \A i \in 1..Len(call.points.list) :
               /\ ret.value.list[i].y = call.points.list[i].y
               /\ ret.value.list[i].x = Sub(Mul(Num(2), call.pivot.x), call.points.list[i].x)
        /\ LET again == flipPointsHorizontallyFromPoint(ret.value, call.pivot)
           IN  /\ ~again.threw
               /\ \A i \in 1..Len(call.points.list) :
                      Le(DistSq(again.value.list[i], call.points.list[i]), Mul(Epsilon, Epsilon))

\* C24 witness: (1,2,0), (0,1,1) flipped about (0,0,0) become (-1,2,0), (0,1,-1)
C24_Witness ==
    /\ C24_Called
    /\ call.points = List(<<V3(1, 2, 0), V3(0, 1, 1)>>)
    /\ call.pivot = V3(0, 0, 0)
    /\ ret = Returned(List(<<V3(-1, 2, 0), V3(0, 1, -1)>>))

\* C25: isInline(a, b, c) returns false whenever c equals a or c equals b, and
\* returns true only when c lies strictly between a and b on the segment.
C25_InlineExcludesEndPoints ==
    (pc = "done" /\ call.op = "isInline" /\ ~ret.threw) =>
        /\ (call.c = call.a \/ call.c = call.b) => ret.value = FALSE
        /\ ret.value = TRUE => (call.c # call.a /\ call.c # call.b)

\* C26: rotateUVs turns every face-corner UV of the geometry by a positive 90
\* degrees: each UV (x, y) becomes (-y, x).
C26_RotateUVsTurnsByQuarter ==
    (last.op = "rotateUVs" /\ ~last.threw) =>
        \A i \in 1..NumUvEntries(geo) : \A k \in 1..Len(UvSet(geo)[i]) :
            UvSet(geo)[i][k] = Vector2(Neg(UvSet(last.before)[i][k].y), UvSet(last.before)[i][k].x)

\* C27: every declared constant of Colors and of Curve is retrievable by its value:
\* for each constant c, Colors.fromValue(c.value()) (Curve.findByValue(c.value))
\* returns that same instance c, and looking up a value that no constant carries
\* returns null.
C27_ConstantsAreFoundByValue ==
    /\ (pc = "done" /\ call.op = "fromValue") =>
           /\ ~ret.threw
           /\ \A i \in DOMAIN ColorsConstants :
                  call.value = ColorsConstants[i].value => ret.value = ColorsConstants[i]
           /\ (\A i \in DOMAIN ColorsConstants : call.value # ColorsConstants[i].value) =>
                  ret.value = Null
    /\ (pc = "done" /\ call.op = "findByValue") =>
           /\ ~ret.threw
           /\ \A i \in DOMAIN CurveConstants :
                  call.curve = CurveConstants[i].value => ret.value = CurveConstants[i]
           /\ (\A i \in DOMAIN CurveConstants : call.curve # CurveConstants[i].value) =>
                  ret.value = Null

\* C28: rotatePointsFromPoint is a rigid rotation about the pivot: whenever it
\* returns (a non-zero degree, an axis it accepts, whatever its length), each
\* point's distance to the pivot and the distances between the points of the list
\* are what they were before the call.
C28_RotationIsRigid ==
    (pc = "done" /\ call.op = "rotatePointsFromPoint" /\ ~ret.threw) =>
        \A i \in 1..Len(call.points.list) :
            /\ DistSq(ret.value.list[i], call.pivot) = DistSq(call.points.list[i], call.pivot)
            /\ \A j \in 1..Len(call.points.list) :
                   DistSq(ret.value.list[i], ret.value.list[j])
                       = DistSq(call.points.list[i], call.points.list[j])

\* C29: a getCentroid call on a polygon of non-zero area whose vertices all have the
\* same z
C29_Called ==
    /\ pc = "done" /\ call.op = "getCentroid"
    /\ ~IsNull(call.points) /\ Len(call.points.list) >= 3
    /\ \A i \in 1..Len(call.points.list) : call.points.list[i].z = call.points.list[1].z
    /\ LET points == call.points.list
           next(i) == points[(i % Len(points)) + 1]
       IN  SumNums([i \in 1..Len(points) |->
                      Sub(Mul(points[i].x, next(i).y), Mul(next(i).x, points[i].y))]) # Zero

\* C29: for a simple polygon of non-zero area whose vertices all have the z
\* coordinate c, getCentroid returns a point whose z is c, and whose x and y are
\* those it returns for the polygon moved to z = 0, listed from another vertex, or
\* listed in the other direction.
C29_CentroidLiesInThePlane ==
    C29_Called =>
        LET points == call.points.list
            n == Len(points)
            xy(list) == XY(getCentroid(List(list)).value)
        IN  /\ ~ret.threw
            /\ ret.value.z = points[1].z
            /\ XY(ret.value) = xy([i \in 1..n |-> Vector3(points[i].x, points[i].y, Zero)])
            /\ XY(ret.value) = xy([i \in 1..n |-> points[n + 1 - i]])
            /\ \A k \in 1..n : XY(ret.value) = xy([i \in 1..n |-> points[((i + k) % n) + 1]])

\* C30: the segments ab and cd, of points with whole coordinates, have a point in
\* common
C30_Meet(a, b, c, d) ==
    LET lo(u, v) == IF u < v THEN u ELSE v
        hi(u, v) == IF u < v THEN v ELSE u
    IN  IF CrossZ(a, b, c) = 0 /\ CrossZ(a, b, d) = 0
        THEN /\ hi(lo(a.x.n, b.x.n), lo(c.x.n, d.x.n)) <= lo(hi(a.x.n, b.x.n), hi(c.x.n, d.x.n))
             /\ hi(lo(a.y.n, b.y.n), lo(c.y.n, d.y.n)) <= lo(hi(a.y.n, b.y.n), hi(c.y.n, d.y.n))
        ELSE /\ SignOf(CrossZ(a, b, c)) * SignOf(CrossZ(a, b, d)) <= 0
             /\ SignOf(CrossZ(c, d, a)) * SignOf(CrossZ(c, d, b)) <= 0

\* C30: a closed polygon is simple: sides that are not neighbours have no point in
\* common, and neighbours only their common corner
C30_Simple(polygon) ==
    LET n == Len(polygon)
        at(i) == polygon[((i - 1) % n) + 1]
    IN  /\ n >= 3
        /\ \A i \in 1..n :
               \/ CrossZ(at(i), at(i + 1), at(i + 2)) # 0
               \/ (at(i + 1).x.n - at(i).x.n) * (at(i + 2).x.n - at(i + 1).x.n)
                      + (at(i + 1).y.n - at(i).y.n) * (at(i + 2).y.n - at(i + 1).y.n) > 0
        /\ \A i \in 1..n : \A j \in 1..n :
               (j # i /\ at(j) # at(i + 1) /\ at(j + 1) # at(i)) =>
                   ~C30_Meet(at(i), at(i + 1), at(j), at(j + 1))

\* C30: the point lies on a side of the polygon
C30_OnBoundary(polygon, point) ==
    \E i \in 1..Len(polygon) :
        C30_Meet(polygon[i], polygon[(i % Len(polygon)) + 1], point, point)

\* C30: a call of one of the two functions with a simple polygon of at least 3
\* points and a point that does not lie on its boundary
C30_Called ==
    /\ pc = "done" /\ call.op \in {"pointInPolygon", "isPointInsideShape2D"}
    /\ ~IsNull(call.points) /\ ~IsNull(call.point)
    /\ isAllValuesNumbers(call.point)
    /\ C30_Simple(call.points.list)
    /\ ~C30_OnBoundary(call.points.list, call.point)

\* C30: what the call returned is what the other function returns for the same
\* polygon and point
C30_State ==
    C30_Called =>
        /\ ~ret.threw
        /\ ret.value = pointInPolygon(call.points, call.point).value
        /\ ret.value = isPointInsideShape2D(call.point, call.points).value

\* C30: for every simple polygon of at least 3 points and every point not on its
\* boundary, pointInPolygon(points, p) and isPointInsideShape2D(p, points) return
\* the same boolean, and neither modifies the point list.
C30_PointInPolygonFunctionsAgree ==
    [](C30_State) /\ [][(PointInPolygon \/ IsPointInsideShape2D) => call' = call]_vars

\* C30 witness: (1,2) is inside the pentagon (0,0), (4,0), (4,4), (2,2), (0,4), on the
\* level of its reflex corner
C30_Witness ==
    /\ C30_Called
    /\ call.op = "isPointInsideShape2D"
    /\ call.points = List(<<V3(0, 0, 0), V3(4, 0, 0), V3(4, 4, 0), V3(2, 2, 0), V3(0, 4, 0)>>)
    /\ call.point = V3(1, 2, 0)
    /\ ret = Returned(TRUE)

=============================================================================
